---- MODULE Spec2Model ----
(***************************************************************************)
(* Model of the jsonpatch package of fgrzl/json: GeneratePatch (structural *)
(* differ with the LCS array differ) and ApplyPatch (path resolver and     *)
(* applicator).                                                            *)
(*                                                                         *)
(* Go strings are sequences of one-character strings, so that building a   *)
(* path (basePath + "/" + key, strconv.Itoa) and parsing it back           *)
(* (strings.Trim, strings.Split, strconv.Atoi) are computed, not assumed.  *)
(*                                                                         *)
(* Go maps and slices are references.  The heap is a sequence of objects;  *)
(* a map value holds the address of a map object, a slice value holds the  *)
(* address of its backing array and its length (the capacity is the length *)
(* of the backing array; every slice of the program starts at offset 0).   *)
(***************************************************************************)
EXTENDS Integers, Sequences, FiniteSets, TLC

(***************************************************************************)
(* Bounds of the model.                                                    *)
(***************************************************************************)
\* largest integer scalar used in documents
MaxInt == 3
\* longest array in the array-differ specification
MaxArrLen == 3
\* largest integer scalar in the documents of the round-trip specification
MaxDocInt == 2
\* most operations before, and after, the operation under study in a
\* hand-written batch given to ApplyPatch
MaxPad == 1
\* longest array of strings in the white-space specification
MaxStrArrLen == 2
\* most fields of a struct handed to toMap
MaxFields == 2
\* most Register calls in a run of the type registry
MaxRegister == 3

(***************************************************************************)
(* Strings.                                                                *)
(***************************************************************************)
Digits == <<"0", "1", "2", "3", "4", "5", "6", "7", "8", "9">>

DigitSet == {Digits[i] : i \in 1..10}

DigitVal(c) == (CHOOSE i \in 1..10 : Digits[i] = c) - 1

RECURSIVE Itoa(_)
\* strconv.Itoa for the non-negative integers the differ formats
Itoa(i) == IF i < 10 THEN <<Digits[i + 1]>>
           ELSE Itoa(i \div 10) \o <<Digits[(i % 10) + 1]>>

RECURSIVE digitsValue(_)
digitsValue(s) == IF s = <<>> THEN 0
                  ELSE 10 * digitsValue(SubSeq(s, 1, Len(s) - 1)) + DigitVal(s[Len(s)])

\* strconv.Atoi: optional sign, then one or more decimal digits
Atoi(s) ==
  LET signed == s # <<>> /\ s[1] \in {"+", "-"}
      body   == IF signed THEN Tail(s) ELSE s
  IN IF body = <<>> \/ \E i \in 1..Len(body) : body[i] \notin DigitSet
     THEN [ok |-> FALSE, n |-> 0]
     ELSE [ok |-> TRUE,
           n  |-> IF signed /\ s[1] = "-" THEN 0 - digitsValue(body) ELSE digitsValue(body)]

RECURSIVE TrimLeft(_, _)
TrimLeft(s, cut) == IF s # <<>> /\ s[1] \in cut THEN TrimLeft(Tail(s), cut) ELSE s

RECURSIVE TrimRight(_, _)
TrimRight(s, cut) == IF s # <<>> /\ s[Len(s)] \in cut
                     THEN TrimRight(SubSeq(s, 1, Len(s) - 1), cut) ELSE s

\* strings.Trim(s, cutset)
Trim(s, cut) == TrimRight(TrimLeft(s, cut), cut)

\* strings.TrimSpace, over the white space the model's strings contain
TrimSpace(s) == Trim(s, {" "})

RECURSIVE Split(_, _)
\* strings.Split(s, sep) for a one-character separator
Split(s, sep) ==
  IF \A i \in 1..Len(s) : s[i] # sep THEN <<s>>
  ELSE LET p == CHOOSE i \in 1..Len(s) : s[i] = sep /\ \A j \in 1..(i - 1) : s[j] # sep
       IN <<SubSeq(s, 1, p - 1)>> \o Split(SubSeq(s, p + 1, Len(s)), sep)

(***************************************************************************)
(* Values (interface{}) and heap objects.  Every value record has the same *)
(* fields; t is the dynamic type reported by reflect.TypeOf.               *)
(***************************************************************************)
NilV         == [t |-> "nil",    n |-> 0, s |-> <<>>, ref |-> 0, len |-> 0]
IntV(i)      == [t |-> "int",    n |-> i, s |-> <<>>, ref |-> 0, len |-> 0]
StrV(str)    == [t |-> "string", n |-> 0, s |-> str,  ref |-> 0, len |-> 0]
MapV(r)      == [t |-> "map",    n |-> 0, s |-> <<>>, ref |-> r, len |-> 0]
SliceV(r, l) == [t |-> "slice",  n |-> 0, s |-> <<>>, ref |-> r, len |-> l]

EmptyMap == [x \in {} |-> NilV]

MapObj(m) == [k |-> "map",   m |-> m,        a |-> <<>>]
ArrObj(a) == [k |-> "array", m |-> EmptyMap, a |-> a]

\* m[key] = v
MapSet(m, key, v) == [x \in (DOMAIN m) \cup {key} |-> IF x = key THEN v ELSE m[x]]
\* delete(m, key)
MapDelete(m, key) == [x \in (DOMAIN m) \ {key} |-> m[x]]
\* m[key] with the zero value for a missing key
MapGet(m, key) == IF key \in DOMAIN m THEN m[key] ELSE NilV

\* the elements a slice value shows: the first len slots of its backing array
Elems(h, v) == SubSeq(h[v.ref].a, 1, v.len)

\* the mapping a map value refers to
Fields(h, v) == h[v.ref].m

(***************************************************************************)
(* Documents as trees: what a value denotes once every reference is        *)
(* followed.  Used to state deep equality and to build initial heaps.      *)
(***************************************************************************)
ScalarT(v)   == [t |-> v.t,     n |-> v.n, s |-> v.s,  kids |-> EmptyMap, elems |-> <<>>]
MapT(kids)   == [t |-> "map",   n |-> 0,   s |-> <<>>, kids |-> kids,     elems |-> <<>>]
SliceT(es)   == [t |-> "slice", n |-> 0,   s |-> <<>>, kids |-> EmptyMap, elems |-> es]

RECURSIVE Deref(_, _)
Deref(h, v) ==
  CASE v.t = "map"   -> MapT([x \in DOMAIN Fields(h, v) |-> Deref(h, Fields(h, v)[x])])
    [] v.t = "slice" -> SliceT([i \in 1..v.len |-> Deref(h, h[v.ref].a[i])])
    [] OTHER         -> ScalarT(v)

RECURSIVE Alloc(_, _)
RECURSIVE AllocKids(_, _, _, _)
RECURSIVE AllocElems(_, _, _, _)
\* the heap and the value obtained by building the literal the tree describes;
\* a slice literal has cap = len
Alloc(h, tree) ==
  CASE tree.t = "map" ->
         LET r == AllocKids(h, tree.kids, DOMAIN tree.kids, EmptyMap)
         IN [h |-> Append(r.h, MapObj(r.m)), v |-> MapV(Len(r.h) + 1)]
    [] tree.t = "slice" ->
         LET r == AllocElems(h, tree.elems, 1, <<>>)
         IN [h |-> Append(r.h, ArrObj(r.vs)), v |-> SliceV(Len(r.h) + 1, Len(tree.elems))]
    [] OTHER -> [h |-> h, v |-> [t |-> tree.t, n |-> tree.n, s |-> tree.s, ref |-> 0, len |-> 0]]

AllocKids(h, kids, todo, acc) ==
  IF todo = {} THEN [h |-> h, m |-> acc]
  ELSE LET key == CHOOSE x \in todo : TRUE
           r   == Alloc(h, kids[key])
       IN AllocKids(r.h, kids, todo \ {key}, MapSet(acc, key, r.v))

AllocElems(h, es, i, acc) ==
  IF i > Len(es) THEN [h |-> h, vs |-> acc]
  ELSE LET r == Alloc(h, es[i]) IN AllocElems(r.h, es, i + 1, Append(acc, r.v))

(***************************************************************************)
(* Patch operations and results.                                           *)
(***************************************************************************)
Patch(op, path, from, value) == [op |-> op, path |-> path, from |-> from, value |-> value]

\* st is "ok", "error" (a returned error) or "panic" (a run-time panic)
Res(st, ops) == [st |-> st, ops |-> ops]

(***************************************************************************)
(* Normalisation and equality.                                             *)
(***************************************************************************)
\* toMap: a generic map passes through as the same map, anything else that
\* is not a struct is rejected
toMap(v) == IF v.t = "map" THEN [ok |-> TRUE, v |-> v] ELSE [ok |-> FALSE, v |-> NilV]

\* toSlice: a generic slice passes through as the same slice
toSlice(v) == IF v.t = "slice" THEN [ok |-> TRUE, v |-> v] ELSE [ok |-> FALSE, v |-> NilV]

\* a struct field as reflect shows it: the declared name, the value of the
\* json key of its tag ("" without one) and the field's value
Field(name, tag, value) == [name |-> name, tag |-> tag, value |-> value]

\* data handed to toMap that is no generic map: a struct, a pointer to a
\* struct, or something else (fields = <<>>)
Data(kind, fields) == [kind |-> kind, fields |-> fields]

UpperCase == {"A", "B", "C"}

\* Value.Interface panics on a field that is not exported
exported(name) == Head(name) \in UpperCase

\* the key toMap stores a field under
fieldKey(field) ==
  IF field.tag # <<>>
  THEN LET parts == Split(field.tag, ",")
       IN IF parts[1] # <<>> /\ parts[1] # <<"-">> THEN parts[1] ELSE field.name
  ELSE field.name

RECURSIVE structFields(_, _, _)
\* the loop of toMap over the fields i.. of a struct
structFields(fields, i, result) ==
  IF i > Len(fields) THEN [st |-> "ok", m |-> result]
  ELSE IF ~exported(fields[i].name) THEN [st |-> "panic", m |-> EmptyMap]
  ELSE structFields(fields, i + 1,
                    [k \in DOMAIN result \cup {fieldKey(fields[i])} |->
                       IF k = fieldKey(fields[i]) THEN fields[i].value ELSE result[k]])

\* toMap on data that is not a generic map
toMap_struct(data) ==
  IF data.kind \notin {"struct", "ptr"} THEN [st |-> "error", m |-> EmptyMap]
  ELSE structFields(data.fields, 1, EmptyMap)

(***************************************************************************)
(* The type registry of the polymorphic package.  An error is the sequence *)
(* of the pieces of its message, <<>> is the nil error.                    *)
(***************************************************************************)
\* a nil TypeFactory, nil bytes
NilFactory == "nil"
NilBytes   == <<>>

\* types.Store under LoadOrStore semantics: the first registration stays
Store_keepFirst(t, discriminator, factory) ==
  IF discriminator \in DOMAIN t THEN t
  ELSE [k \in DOMAIN t \cup {discriminator} |->
          IF k = discriminator THEN factory ELSE t[k]]

\* types.Store(discriminator, factory)
Store(t, discriminator, factory) ==
  [k \in DOMAIN t \cup {discriminator} |-> IF k = discriminator THEN factory ELSE t[k]]

\* fmt.Errorf("type %q is not registered", discriminator)
NotRegistered(discriminator) ==
  <<"type ", "\"", discriminator, "\"", " is not registered">>

\* LoadFactory(discriminator): every stored value is a TypeFactory
LoadFactory(t, discriminator) ==
  IF discriminator \in DOMAIN t
  THEN [factory |-> t[discriminator], err |-> <<>>]
  ELSE [factory |-> NilFactory, err |-> NotRegistered(discriminator)]

\* json.Marshal of a content: a channel has no JSON form
marshalContent(obj) ==
  IF obj = "chan" THEN [out |-> NilBytes, err |-> <<"json: unsupported type: ", "chan int">>]
  ELSE [out |-> <<obj>>, err |-> <<>>]

\* Envelope.MarshalJSON
MarshalJSON(t, discriminator, content) ==
  IF LoadFactory(t, discriminator).err # <<>>
  THEN [out |-> NilBytes, err |-> LoadFactory(t, discriminator).err]
  ELSE IF marshalContent(content).err # <<>>
  THEN [out |-> NilBytes,
        err |-> <<"failed to marshal content: ">> \o marshalContent(content).err]
  ELSE [out |-> <<"{\"$type\":", "\"", discriminator, "\"", ",\"content\":">>
                \o marshalContent(content).out \o <<"}">>,
        err |-> <<>>]

\* json.Marshal reports the error of a Marshaler as a MarshalerError
MarshalerError(err) ==
  <<"json: error calling MarshalJSON for type ", "*polymorphic.Envelope", ": ">> \o err

\* MarshalPolymorphicJSON(discriminator, obj): json.Marshal of the Envelope
MarshalPolymorphicJSON(t, discriminator, obj) ==
  IF MarshalJSON(t, discriminator, obj).err # <<>>
  THEN [out |-> NilBytes, err |-> MarshalerError(MarshalJSON(t, discriminator, obj).err)]
  ELSE MarshalJSON(t, discriminator, obj)

RECURSIVE DeepEqual(_, _, _)
\* reflect.DeepEqual on interface{} values
DeepEqual(h, a, b) ==
  /\ a.t = b.t
  /\ CASE a.t = "map" ->
            /\ DOMAIN Fields(h, a) = DOMAIN Fields(h, b)
            /\ \A x \in DOMAIN Fields(h, a) : DeepEqual(h, Fields(h, a)[x], Fields(h, b)[x])
       [] a.t = "slice" ->
            /\ a.len = b.len
            /\ \A i \in 1..a.len : DeepEqual(h, h[a.ref].a[i], h[b.ref].a[i])
       [] a.t = "int"    -> a.n = b.n
       [] a.t = "string" -> a.s = b.s
       [] OTHER -> TRUE

\* deepEqualFiltered without the trimming of strings
deepEqualFiltered_exact(h, a, b) == DeepEqual(h, a, b)

deepEqualFiltered(h, a, b) ==
  IF a.t = "string" /\ b.t = "string"
  THEN TrimSpace(a.s) = TrimSpace(b.s)
  ELSE DeepEqual(h, a, b)

(***************************************************************************)
(* Array differ.                                                           *)
(***************************************************************************)
\* parseIndexFromPath: the last segment of the path, as an integer
parseIndexFromPath(path) ==
  LET parts == Split(Trim(path, {"/"}), "/") IN Atoi(parts[Len(parts)])

RECURSIVE lcsFill(_, _, _, _, _, _)
\* the two nested loops that fill the DP table, i from m-1 down to 0 and
\* j from n-1 down to 0; bs and as are 1-based, the table is 0-based
lcsFill(h, bs, as, i, j, dp) ==
  IF i < 0 THEN dp
  ELSE IF j < 0 THEN lcsFill(h, bs, as, i - 1, Len(as) - 1, dp)
  ELSE LET cell == IF deepEqualFiltered(h, bs[i + 1], as[j + 1])
                   THEN dp[<<i + 1, j + 1>>] + 1
                   ELSE IF dp[<<i + 1, j>>] >= dp[<<i, j + 1>>]
                        THEN dp[<<i + 1, j>>]
                        ELSE dp[<<i, j + 1>>]
       IN lcsFill(h, bs, as, i, j - 1, [dp EXCEPT ![<<i, j>>] = cell])

lcsTable(h, bs, as) ==
  lcsFill(h, bs, as, Len(bs) - 1, Len(as) - 1,
          [p \in (0..Len(bs)) \X (0..Len(as)) |-> 0])

RECURSIVE lcsWalk_greedy(_, _, _, _, _, _, _, _)
\* lcsWalk that never consults the table: on unequal elements it always
\* steps in before
lcsWalk_greedy(h, bs, as, dp, i, j, commonBefore, commonAfter) ==
  IF ~(i < Len(bs) /\ j < Len(as))
  THEN [commonBefore |-> commonBefore, commonAfter |-> commonAfter]
  ELSE IF deepEqualFiltered(h, bs[i + 1], as[j + 1])
       THEN lcsWalk_greedy(h, bs, as, dp, i + 1, j + 1,
                           commonBefore \cup {i}, commonAfter \cup {j})
       ELSE lcsWalk_greedy(h, bs, as, dp, i + 1, j, commonBefore, commonAfter)

RECURSIVE lcsWalk(_, _, _, _, _, _, _, _)
\* the walk that marks the indices of the common subsequence
lcsWalk(h, bs, as, dp, i, j, commonBefore, commonAfter) ==
  IF ~(i < Len(bs) /\ j < Len(as))
  THEN [commonBefore |-> commonBefore, commonAfter |-> commonAfter]
  ELSE IF deepEqualFiltered(h, bs[i + 1], as[j + 1])
       THEN lcsWalk(h, bs, as, dp, i + 1, j + 1, commonBefore \cup {i}, commonAfter \cup {j})
       ELSE IF dp[<<i + 1, j>>] >= dp[<<i, j + 1>>]
            THEN lcsWalk(h, bs, as, dp, i + 1, j, commonBefore, commonAfter)
            ELSE lcsWalk(h, bs, as, dp, i, j + 1, commonBefore, commonAfter)

\* lcsCommon walking a table that was allocated but never filled
lcsCommon_unfilled(h, bs, as) ==
  lcsWalk(h, bs, as, [p \in (0..Len(bs)) \X (0..Len(as)) |-> 0], 0, 0, {}, {})

lcsCommon(h, bs, as) == lcsWalk(h, bs, as, lcsTable(h, bs, as), 0, 0, {}, {})

RECURSIVE removalPatches_ascending(_, _, _)
\* removalPatches with the loop running from index 0 up to i
removalPatches_ascending(basePath, commonBefore, i) ==
  IF i < 0 THEN <<>>
  ELSE removalPatches_ascending(basePath, commonBefore, i - 1)
       \o (IF i \notin commonBefore
           THEN <<Patch("remove", basePath \o <<"/">> \o Itoa(i), <<>>, NilV)>>
           ELSE <<>>)

RECURSIVE removalPatches(_, _, _)
\* remove operations for the before indices outside the common subsequence,
\* from index i down to 0
removalPatches(basePath, commonBefore, i) ==
  IF i < 0 THEN <<>>
  ELSE (IF i \notin commonBefore
        THEN <<Patch("remove", basePath \o <<"/">> \o Itoa(i), <<>>, NilV)>>
        ELSE <<>>) \o removalPatches(basePath, commonBefore, i - 1)

RECURSIVE additionPatches(_, _, _, _)
\* add operations for the after indices outside the common subsequence,
\* from index j up to n-1
additionPatches(basePath, as, commonAfter, j) ==
  IF j >= Len(as) THEN <<>>
  ELSE (IF j \notin commonAfter
        THEN <<Patch("add", basePath \o <<"/">> \o Itoa(j), <<>>, as[j + 1])>>
        ELSE <<>>) \o additionPatches(basePath, as, commonAfter, j + 1)

RECURSIVE opsByIndex(_, _, _, _)
\* removalsMap / additionsMap: the operations of one kind keyed by the index
\* parsed from their path; unparsable paths are skipped
opsByIndex(patches, op, i, acc) ==
  IF i > Len(patches) THEN acc
  ELSE LET p   == patches[i]
           idx == parseIndexFromPath(p.path)
       IN IF idx.ok /\ p.op = op
          THEN opsByIndex(patches, op, i + 1, MapSet(acc, idx.n, p))
          ELSE opsByIndex(patches, op, i + 1, acc)

\* mergedMap that keeps the remove of an index that also has an add
mergedMap_noMerge(removalsMap, additionsMap) ==
  [idx \in (DOMAIN removalsMap) \cup (DOMAIN additionsMap) |->
     IF idx \in DOMAIN removalsMap THEN removalsMap[idx] ELSE additionsMap[idx]]

\* mergedMap: a remove and an add on the same index become one replace
mergedMap(removalsMap, additionsMap) ==
  [idx \in (DOMAIN removalsMap) \cup (DOMAIN additionsMap) |->
     IF idx \in DOMAIN removalsMap
     THEN IF idx \in DOMAIN additionsMap
          THEN Patch("replace", removalsMap[idx].path, <<>>, additionsMap[idx].value)
          ELSE removalsMap[idx]
     ELSE additionsMap[idx]]

RECURSIVE sortByIndex(_)
\* sort.Slice by the index parsed from each path; ps is the set of patches
sortByIndex(ps) ==
  IF ps = {} THEN <<>>
  ELSE LET least == CHOOSE p \in ps :
                      \A q \in ps : parseIndexFromPath(p.path).n <= parseIndexFromPath(q.path).n
       IN <<least>> \o sortByIndex(ps \ {least})

improvedArrayDiff(h, basePath, bs, as) ==
  LET m        == Len(bs)
      n        == Len(as)
      common   == lcsCommon(h, bs, as)
      removals == removalPatches(basePath, common.commonBefore, m - 1)
      adds     == additionPatches(basePath, as, common.commonAfter, 0)
      patches  == removals \o adds
  IN IF m = n
     THEN LET removalsMap  == opsByIndex(patches, "remove", 1, <<>>)
              additionsMap == opsByIndex(patches, "add", 1, <<>>)
              merged       == mergedMap(removalsMap, additionsMap)
          IN Res("ok", sortByIndex({merged[idx] : idx \in DOMAIN merged}))
     ELSE Res("ok", patches)

\* the indices at which two arrays of equal length differ, ascending
diffIndices(h, bs, as) ==
  LET D == {i \in 0..(Len(bs) - 1) : ~deepEqualFiltered(h, bs[i + 1], as[i + 1])}
  IN D

\* generateArrayPatch with Path and From of the move exchanged
generateArrayPatch_reversed(h, basePath, before, after) ==
  IF ~toSlice(before).ok \/ ~toSlice(after).ok THEN Res("error", <<>>)
  ELSE
  LET bs == Elems(h, toSlice(before).v)
      as == Elems(h, toSlice(after).v)
      D  == IF Len(bs) = Len(as) THEN diffIndices(h, bs, as) ELSE {}
  IN IF Len(bs) = Len(as) /\ Cardinality(D) = 2
     THEN LET i == CHOOSE x \in D : \A y \in D : x <= y
              j == CHOOSE x \in D : \A y \in D : x >= y
          IN IF /\ deepEqualFiltered(h, bs[i + 1], as[j + 1])
                /\ deepEqualFiltered(h, bs[j + 1], as[i + 1])
             THEN Res("ok", <<Patch("move", basePath \o <<"/">> \o Itoa(i),
                                            basePath \o <<"/">> \o Itoa(j), NilV)>>)
             ELSE improvedArrayDiff(h, basePath, bs, as)
     ELSE improvedArrayDiff(h, basePath, bs, as)

generateArrayPatch(h, basePath, before, after) ==
  IF ~toSlice(before).ok \/ ~toSlice(after).ok THEN Res("error", <<>>)
  ELSE
  LET bs == Elems(h, toSlice(before).v)
      as == Elems(h, toSlice(after).v)
      D  == IF Len(bs) = Len(as) THEN diffIndices(h, bs, as) ELSE {}
  IN IF Len(bs) = Len(as) /\ Cardinality(D) = 2
     THEN LET i == CHOOSE x \in D : \A y \in D : x <= y
              j == CHOOSE x \in D : \A y \in D : x >= y
          IN IF /\ deepEqualFiltered(h, bs[i + 1], as[j + 1])
                /\ deepEqualFiltered(h, bs[j + 1], as[i + 1])
             THEN Res("ok", <<Patch("move", basePath \o <<"/">> \o Itoa(j),
                                            basePath \o <<"/">> \o Itoa(i), NilV)>>)
             ELSE improvedArrayDiff(h, basePath, bs, as)
     ELSE improvedArrayDiff(h, basePath, bs, as)

(***************************************************************************)
(* Structural differ.  Go iterates a map in an unspecified order: ord is   *)
(* the order in which the keys are visited, a sequence holding every key.  *)
(***************************************************************************)
\* keysInOrder that stops after the first key it visits
keysInOrder_first(m, ord) ==
  LET present == {i \in 1..Len(ord) : ord[i] \in DOMAIN m}
  IN IF present = {} THEN <<>>
     ELSE <<ord[CHOOSE i \in present : \A j \in present : i <= j]>>

RECURSIVE keysInOrder(_, _)
\* the keys of m in the order ord visits them
keysInOrder(m, ord) ==
  IF ord = <<>> THEN <<>>
  ELSE (IF Head(ord) \in DOMAIN m THEN <<Head(ord)>> ELSE <<>>) \o keysInOrder(m, Tail(ord))

RECURSIVE removedKeys(_, _, _, _)
\* the second loop of GeneratePatch: a remove for every key of before that
\* after lacks
removedKeys(bm, am, basePath, keys) ==
  IF keys = <<>> THEN <<>>
  ELSE (IF Head(keys) \notin DOMAIN am
        THEN <<Patch("remove", basePath \o <<"/">> \o Head(keys), <<>>, NilV)>>
        ELSE <<>>) \o removedKeys(bm, am, basePath, Tail(keys))

RECURSIVE GeneratePatch(_, _, _, _, _)
RECURSIVE afterKeys(_, _, _, _, _, _, _)
\* afterKeys without the test that the two values have the same type: the
\* kind of the before value alone decides how the pair is diffed
afterKeys_noTypeTest(h, bm, am, basePath, ord, keys, patches) ==
  IF keys = <<>> THEN Res("ok", patches)
  ELSE
  LET key      == Head(keys)
      path     == basePath \o <<"/">> \o key
      afterVal == am[key]
  IN IF key \notin DOMAIN bm
     THEN afterKeys(h, bm, am, basePath, ord, Tail(keys),
                    Append(patches, Patch("add", path, <<>>, afterVal)))
     ELSE
     LET beforeVal == bm[key]
     IN IF beforeVal.t = "nil" THEN Res("panic", <<>>)
        ELSE IF beforeVal.t = "slice"
        THEN LET arrOps == generateArrayPatch(h, path, beforeVal, afterVal)
             IN IF arrOps.st # "ok" THEN Res(arrOps.st, <<>>)
                ELSE afterKeys(h, bm, am, basePath, ord, Tail(keys), patches \o arrOps.ops)
        ELSE IF beforeVal.t = "map"
        THEN LET nested == GeneratePatch(h, beforeVal, afterVal, path, ord)
             IN IF nested.st # "ok" THEN Res(nested.st, <<>>)
                ELSE afterKeys(h, bm, am, basePath, ord, Tail(keys), patches \o nested.ops)
        ELSE IF ~deepEqualFiltered(h, beforeVal, afterVal)
        THEN afterKeys(h, bm, am, basePath, ord, Tail(keys),
                       Append(patches, Patch("replace", path, <<>>, afterVal)))
        ELSE afterKeys(h, bm, am, basePath, ord, Tail(keys), patches)

\* the first loop of GeneratePatch over the keys of after still to visit
afterKeys(h, bm, am, basePath, ord, keys, patches) ==
  IF keys = <<>> THEN Res("ok", patches)
  ELSE
  LET key      == Head(keys)
      path     == basePath \o <<"/">> \o key
      afterVal == am[key]
  IN IF key \notin DOMAIN bm
     THEN afterKeys(h, bm, am, basePath, ord, Tail(keys),
                    Append(patches, Patch("add", path, <<>>, afterVal)))
     ELSE
     LET beforeVal == bm[key]
     IN IF beforeVal.t # afterVal.t
        THEN afterKeys(h, bm, am, basePath, ord, Tail(keys),
                       Append(patches, Patch("replace", path, <<>>, afterVal)))
        ELSE IF beforeVal.t = "nil"
        \* reflect.TypeOf(nil) is the nil Type: calling Kind() on it panics
        THEN Res("panic", <<>>)
        ELSE IF beforeVal.t = "slice"
        THEN LET arrOps == generateArrayPatch(h, path, beforeVal, afterVal)
             IN IF arrOps.st # "ok" THEN Res(arrOps.st, <<>>)
                ELSE afterKeys(h, bm, am, basePath, ord, Tail(keys), patches \o arrOps.ops)
        ELSE IF beforeVal.t = "map"
        THEN LET nested == GeneratePatch(h, beforeVal, afterVal, path, ord)
             IN IF nested.st # "ok" THEN Res(nested.st, <<>>)
                ELSE afterKeys(h, bm, am, basePath, ord, Tail(keys), patches \o nested.ops)
        ELSE IF ~deepEqualFiltered(h, beforeVal, afterVal)
        THEN afterKeys(h, bm, am, basePath, ord, Tail(keys),
                       Append(patches, Patch("replace", path, <<>>, afterVal)))
        ELSE afterKeys(h, bm, am, basePath, ord, Tail(keys), patches)

GeneratePatch(h, before, after, basePath, ord) ==
  IF ~toMap(before).ok \/ ~toMap(after).ok THEN Res("error", <<>>)
  ELSE
  LET bm    == Fields(h, toMap(before).v)
      am    == Fields(h, toMap(after).v)
      first == afterKeys(h, bm, am, basePath, ord, keysInOrder(am, ord), <<>>)
  IN IF first.st # "ok" THEN first
     ELSE Res("ok", first.ops \o removedKeys(bm, am, basePath, keysInOrder(bm, ord)))

(***************************************************************************)
(* The differ of jsonpatch/patch.go: the same structural differ over an    *)
(* array differ that falls back on comparing index by index.               *)
(***************************************************************************)
RECURSIVE positionalReplaces(_, _, _, _, _, _)
\* a replace for every index from i below commonLen whose elements differ
positionalReplaces(h, basePath, bs, as, i, commonLen) ==
  IF i >= commonLen THEN <<>>
  ELSE (IF ~deepEqualFiltered(h, bs[i + 1], as[i + 1])
        THEN <<Patch("replace", basePath \o <<"/">> \o Itoa(i), <<>>, as[i + 1])>>
        ELSE <<>>) \o positionalReplaces(h, basePath, bs, as, i + 1, commonLen)

RECURSIVE positionalAdds(_, _, _)
\* an add for every index of after from i on
positionalAdds(basePath, as, i) ==
  IF i >= Len(as) THEN <<>>
  ELSE <<Patch("add", basePath \o <<"/">> \o Itoa(i), <<>>, as[i + 1])>>
       \o positionalAdds(basePath, as, i + 1)

RECURSIVE positionalRemoves(_, _, _)
\* a remove for every index of before from i on, in ascending order
positionalRemoves(basePath, bs, i) ==
  IF i >= Len(bs) THEN <<>>
  ELSE <<Patch("remove", basePath \o <<"/">> \o Itoa(i), <<>>, NilV)>>
       \o positionalRemoves(basePath, bs, i + 1)

\* the fallback of generateArrayPatch in jsonpatch/patch.go
positionalDiff(h, basePath, bs, as) ==
  LET commonLen == IF Len(as) < Len(bs) THEN Len(as) ELSE Len(bs)
  IN Res("ok", positionalReplaces(h, basePath, bs, as, 0, commonLen)
               \o positionalAdds(basePath, as, commonLen)
               \o positionalRemoves(basePath, bs, Len(as)))

\* generateArrayPatch of jsonpatch/patch.go
generateArrayPatch_positional(h, basePath, before, after) ==
  IF ~toSlice(before).ok \/ ~toSlice(after).ok THEN Res("error", <<>>)
  ELSE
  LET bs == Elems(h, toSlice(before).v)
      as == Elems(h, toSlice(after).v)
      D  == IF Len(bs) = Len(as) THEN diffIndices(h, bs, as) ELSE {}
  IN IF Len(bs) = Len(as) /\ Cardinality(D) = 2
     THEN LET i == CHOOSE x \in D : \A y \in D : x <= y
              j == CHOOSE x \in D : \A y \in D : x >= y
          IN IF /\ deepEqualFiltered(h, bs[i + 1], as[j + 1])
                /\ deepEqualFiltered(h, bs[j + 1], as[i + 1])
             THEN Res("ok", <<Patch("move", basePath \o <<"/">> \o Itoa(j),
                                            basePath \o <<"/">> \o Itoa(i), NilV)>>)
             ELSE positionalDiff(h, basePath, bs, as)
     ELSE positionalDiff(h, basePath, bs, as)

RECURSIVE GeneratePatch_positional(_, _, _, _, _)
RECURSIVE afterKeys_positional(_, _, _, _, _, _, _)
\* the first loop of GeneratePatch of jsonpatch/patch.go
afterKeys_positional(h, bm, am, basePath, ord, keys, patches) ==
  IF keys = <<>> THEN Res("ok", patches)
  ELSE
  LET key      == Head(keys)
      path     == basePath \o <<"/">> \o key
      afterVal == am[key]
  IN IF key \notin DOMAIN bm
     THEN afterKeys_positional(h, bm, am, basePath, ord, Tail(keys),
                               Append(patches, Patch("add", path, <<>>, afterVal)))
     ELSE
     LET beforeVal == bm[key]
     IN IF beforeVal.t # afterVal.t
        THEN afterKeys_positional(h, bm, am, basePath, ord, Tail(keys),
                                  Append(patches, Patch("replace", path, <<>>, afterVal)))
        ELSE IF beforeVal.t = "nil"
        THEN Res("panic", <<>>)
        ELSE IF beforeVal.t = "slice"
        THEN LET arrOps == generateArrayPatch_positional(h, path, beforeVal, afterVal)
             IN IF arrOps.st # "ok" THEN Res(arrOps.st, <<>>)
                ELSE afterKeys_positional(h, bm, am, basePath, ord, Tail(keys),
                                          patches \o arrOps.ops)
        ELSE IF beforeVal.t = "map"
        THEN LET nested == GeneratePatch_positional(h, beforeVal, afterVal, path, ord)
             IN IF nested.st # "ok" THEN Res(nested.st, <<>>)
                ELSE afterKeys_positional(h, bm, am, basePath, ord, Tail(keys),
                                          patches \o nested.ops)
        ELSE IF ~deepEqualFiltered(h, beforeVal, afterVal)
        THEN afterKeys_positional(h, bm, am, basePath, ord, Tail(keys),
                                  Append(patches, Patch("replace", path, <<>>, afterVal)))
        ELSE afterKeys_positional(h, bm, am, basePath, ord, Tail(keys), patches)

\* GeneratePatch of jsonpatch/patch.go
GeneratePatch_positional(h, before, after, basePath, ord) ==
  IF ~toMap(before).ok \/ ~toMap(after).ok THEN Res("error", <<>>)
  ELSE
  LET bm    == Fields(h, toMap(before).v)
      am    == Fields(h, toMap(after).v)
      first == afterKeys_positional(h, bm, am, basePath, ord, keysInOrder(am, ord), <<>>)
  IN IF first.st # "ok" THEN first
     ELSE Res("ok", first.ops \o removedKeys(bm, am, basePath, keysInOrder(bm, ord)))

(***************************************************************************)
(* Path resolver.                                                          *)
(***************************************************************************)
\* parsePath: an empty path is an error
parsePath(path) ==
  IF path = <<>> THEN [ok |-> FALSE, parts |-> <<>>]
  ELSE [ok |-> TRUE, parts |-> Split(Trim(path, {"/"}), "/")]

isTwoPartArray(h, target, parts) ==
  LET no == [ok |-> FALSE, key |-> <<>>, idx |-> -1]
  IN IF Len(parts) # 2 THEN no
     ELSE LET arr == MapGet(Fields(h, target), parts[1])
              idx == Atoi(parts[2])
          IN IF arr.t # "slice" THEN no
             ELSE IF ~idx.ok \/ idx.n < 0 \/ idx.n >= arr.len THEN no
             ELSE [ok |-> TRUE, key |-> parts[1], idx |-> idx.n]

Located(err, parent, key, isArr, idx) ==
  [err |-> err, parent |-> parent, key |-> key, isArr |-> isArr, idx |-> idx]

RECURSIVE traverseFrom_unparsed(_, _, _, _)
\* traverseFrom with the error of strconv.Atoi ignored: an index that is no
\* number reads as the 0 Atoi returns with its error
traverseFrom_unparsed(h, parent, parts, i) ==
  IF ~(i < Len(parts) - 1) THEN Located("", parent, parts[Len(parts)], FALSE, -1)
  ELSE
  LET part == parts[i + 1]
  IN IF part \notin DOMAIN Fields(h, parent)
     THEN Located("path does not exist", NilV, <<>>, FALSE, -1)
     ELSE
     LET val == Fields(h, parent)[part]
     IN IF i = Len(parts) - 2
        THEN IF val.t = "slice"
             THEN LET j == Atoi(parts[i + 2])
                  IN IF j.n < 0 \/ j.n >= val.len
                     THEN Located("invalid index", NilV, <<>>, FALSE, -1)
                     ELSE Located("", parent, part, TRUE, j.n)
             ELSE IF val.t = "map"
             THEN Located("", val, parts[Len(parts)], FALSE, -1)
             ELSE Located("unexpected type", NilV, <<>>, FALSE, -1)
        ELSE IF val.t = "map"
             THEN traverseFrom_unparsed(h, val, parts, i + 1)
             ELSE Located("expected map", NilV, <<>>, FALSE, -1)

RECURSIVE traverseFrom(_, _, _, _)
\* the loop of traverseToParent from segment i (0-based) with the current parent
traverseFrom(h, parent, parts, i) ==
  IF ~(i < Len(parts) - 1) THEN Located("", parent, parts[Len(parts)], FALSE, -1)
  ELSE
  LET part == parts[i + 1]
  IN IF part \notin DOMAIN Fields(h, parent)
     THEN Located("path does not exist", NilV, <<>>, FALSE, -1)
     ELSE
     LET val == Fields(h, parent)[part]
     IN IF i = Len(parts) - 2
        THEN IF val.t = "slice"
             THEN LET j == Atoi(parts[i + 2])
                  IN IF ~j.ok \/ j.n < 0 \/ j.n >= val.len
                     THEN Located("invalid index", NilV, <<>>, FALSE, -1)
                     ELSE Located("", parent, part, TRUE, j.n)
             ELSE IF val.t = "map"
             THEN Located("", val, parts[Len(parts)], FALSE, -1)
             ELSE Located("unexpected type", NilV, <<>>, FALSE, -1)
        ELSE IF val.t = "map"
             THEN traverseFrom(h, val, parts, i + 1)
             ELSE Located("expected map", NilV, <<>>, FALSE, -1)

RECURSIVE traverseFrom_lenient(_, _, _, _)
\* traverseFrom with the existence test dropped: a missing key reads as the
\* zero value instead of ending the walk with "path does not exist"
traverseFrom_lenient(h, parent, parts, i) ==
  IF ~(i < Len(parts) - 1) THEN Located("", parent, parts[Len(parts)], FALSE, -1)
  ELSE
  LET part == parts[i + 1]
      val  == MapGet(Fields(h, parent), part)
  IN IF val.t = "nil" THEN Located("", parent, parts[Len(parts)], FALSE, -1)
     ELSE IF i = Len(parts) - 2
     THEN IF val.t = "slice"
          THEN LET j == Atoi(parts[i + 2])
               IN IF ~j.ok \/ j.n < 0 \/ j.n >= val.len
                  THEN Located("invalid index", NilV, <<>>, FALSE, -1)
                  ELSE Located("", parent, part, TRUE, j.n)
          ELSE IF val.t = "map"
          THEN Located("", val, parts[Len(parts)], FALSE, -1)
          ELSE Located("unexpected type", NilV, <<>>, FALSE, -1)
     ELSE IF val.t = "map"
          THEN traverseFrom_lenient(h, val, parts, i + 1)
          ELSE Located("expected map", NilV, <<>>, FALSE, -1)

traverseToParent_lenient(h, target, parts) == traverseFrom_lenient(h, target, parts, 0)

traverseToParent(h, target, parts) == traverseFrom(h, target, parts, 0)

(***************************************************************************)
(* Mutation of maps and slices.                                            *)
(***************************************************************************)
\* parent[key] = v on the map object parent refers to
setKey(h, parent, key, v) == [h EXCEPT ![parent.ref].m = MapSet(@, key, v)]

\* delete(parent, key)
deleteKey(h, parent, key) == [h EXCEPT ![parent.ref].m = MapDelete(@, key)]

\* append(sl, vals...): in place when the capacity suffices, otherwise into
\* a new backing array of the grown capacity (runtime growslice for small
\* slices: the larger of the needed length and twice the old capacity)
goAppend(h, sl, vals) ==
  LET old    == h[sl.ref].a
      newLen == sl.len + Len(vals)
  IN IF newLen <= Len(old)
     THEN [h |-> [h EXCEPT ![sl.ref].a =
                    [i \in 1..Len(old) |->
                       IF i <= sl.len THEN old[i]
                       ELSE IF i <= newLen THEN vals[i - sl.len]
                       ELSE old[i]]],
           v |-> SliceV(sl.ref, newLen)]
     ELSE LET newCap == IF newLen > 2 * Len(old) THEN newLen ELSE 2 * Len(old)
          IN [h |-> Append(h, ArrObj([i \in 1..newCap |->
                       IF i <= sl.len THEN old[i]
                       ELSE IF i <= newLen THEN vals[i - sl.len]
                       ELSE NilV])),
              v |-> SliceV(Len(h) + 1, newLen)]

\* arr[:n]
slicePrefix(arr, n) == SliceV(arr.ref, n)

\* the elements of arr[from:] (from 0-based)
sliceFrom(h, arr, from) == SubSeq(h[arr.ref].a, from + 1, arr.len)

\* append(arr[:idx], append([]interface{}{value}, arr[idx:]...)...)
spliceIn(h, arr, idx, value) ==
  goAppend(h, slicePrefix(arr, idx), <<value>> \o sliceFrom(h, arr, idx))

\* append(arr[:idx], arr[idx+1:]...)
spliceOut(h, arr, idx) == goAppend(h, slicePrefix(arr, idx), sliceFrom(h, arr, idx + 1))

\* arr[idx] = value
setElem(h, arr, idx, value) == [h EXCEPT ![arr.ref].a[idx + 1] = value]

Done(h, err) == [h |-> h, err |-> err]

(***************************************************************************)
(* Patch applicator.  Every operation returns the heap it leaves and its   *)
(* error ("" is nil).                                                      *)
(***************************************************************************)
insertIntoSlice(h, parent, key, index, value) ==
  LET arr == MapGet(Fields(h, parent), key)
  IN IF arr.t # "slice"
     THEN Done(setKey(Append(h, ArrObj(<<value>>)), parent, key, SliceV(Len(h) + 1, 1)), "")
     ELSE IF index < 0 \/ index > arr.len THEN Done(h, "index out of bounds")
     ELSE LET r == IF index = arr.len THEN goAppend(h, arr, <<value>>)
                   ELSE spliceIn(h, arr, index, value)
          IN Done(setKey(r.h, parent, key, r.v), "")

applyAdd(h, target, parts, value) ==
  LET first   == MapGet(Fields(h, target), parts[1])
      atEnd   == /\ Len(parts) = 2
                 /\ first.t = "slice"
                 /\ Atoi(parts[2]).ok
                 /\ Atoi(parts[2]).n = first.len
      two     == isTwoPartArray(h, target, parts)
      loc     == traverseToParent(h, target, parts)
  IN IF atEnd
     THEN LET r == goAppend(h, first, <<value>>)
          IN Done(setKey(r.h, target, parts[1], r.v), "")
     ELSE IF two.ok
     THEN LET arr == Fields(h, target)[two.key]
              r   == IF two.idx = arr.len THEN goAppend(h, arr, <<value>>)
                     ELSE spliceIn(h, arr, two.idx, value)
          IN Done(setKey(r.h, target, two.key, r.v), "")
     ELSE IF loc.err # "" THEN Done(h, loc.err)
     ELSE IF loc.isArr THEN insertIntoSlice(h, loc.parent, loc.key, loc.idx, value)
     ELSE Done(setKey(h, loc.parent, loc.key, value), "")

removeFromSlice(h, parent, key, index) ==
  LET arr == MapGet(Fields(h, parent), key)
  IN IF arr.t # "slice" \/ index < 0 \/ index >= arr.len
     THEN Done(h, "invalid array or index")
     ELSE LET r == spliceOut(h, arr, index) IN Done(setKey(r.h, parent, key, r.v), "")

\* applyRemove that reports a terminal mapping key that is absent
applyRemove_strict(h, target, parts) ==
  LET two == isTwoPartArray(h, target, parts)
      loc == traverseToParent(h, target, parts)
  IN IF two.ok
     THEN LET arr == Fields(h, target)[two.key]
          IN IF two.idx < 0 \/ two.idx >= arr.len THEN Done(h, "index out of bounds")
             ELSE LET r == spliceOut(h, arr, two.idx)
                  IN Done(setKey(r.h, target, two.key, r.v), "")
     ELSE IF loc.err # "" THEN Done(h, loc.err)
     ELSE IF loc.isArr THEN removeFromSlice(h, loc.parent, loc.key, loc.idx)
     ELSE IF loc.key \notin DOMAIN Fields(h, loc.parent) THEN Done(h, "key does not exist")
     ELSE Done(deleteKey(h, loc.parent, loc.key), "")

applyRemove(h, target, parts) ==
  LET two == isTwoPartArray(h, target, parts)
      loc == traverseToParent(h, target, parts)
  IN IF two.ok
     THEN LET arr == Fields(h, target)[two.key]
          IN IF two.idx < 0 \/ two.idx >= arr.len THEN Done(h, "index out of bounds")
             ELSE LET r == spliceOut(h, arr, two.idx)
                  IN Done(setKey(r.h, target, two.key, r.v), "")
     ELSE IF loc.err # "" THEN Done(h, loc.err)
     ELSE IF loc.isArr THEN removeFromSlice(h, loc.parent, loc.key, loc.idx)
     ELSE Done(deleteKey(h, loc.parent, loc.key), "")

replaceInSlice(h, parent, key, index, value) ==
  LET arr == MapGet(Fields(h, parent), key)
  IN IF arr.t # "slice" \/ index < 0 \/ index >= arr.len
     THEN Done(h, "invalid array or index")
     ELSE Done(setKey(setElem(h, arr, index, value), parent, key, arr), "")

applyReplace(h, target, parts, value) ==
  LET two == isTwoPartArray(h, target, parts)
      loc == traverseToParent(h, target, parts)
  IN IF two.ok
     THEN LET arr == Fields(h, target)[two.key]
          IN IF two.idx < 0 \/ two.idx >= arr.len THEN Done(h, "index out of bounds")
             ELSE Done(setKey(setElem(h, arr, two.idx, value), target, two.key, arr), "")
     ELSE IF loc.err # "" THEN Done(h, loc.err)
     ELSE IF loc.isArr THEN replaceInSlice(h, loc.parent, loc.key, loc.idx, value)
     ELSE Done(setKey(h, loc.parent, loc.key, value), "")

getFromSlice(h, parent, key, index) ==
  LET arr == MapGet(Fields(h, parent), key)
  IN IF arr.t # "slice" \/ index < 0 \/ index >= arr.len THEN NilV
     ELSE h[arr.ref].a[index + 1]

\* applyMove that puts the document back as it was when the add fails
applyMove_rollback(h, target, fromParts, toParts) ==
  LET two == isTwoPartArray(h, target, fromParts)
      loc == traverseToParent(h, target, fromParts)
  IN IF ~two.ok /\ loc.err # "" THEN Done(h, loc.err)
     ELSE
     LET value   == IF two.ok THEN h[Fields(h, target)[two.key].ref].a[two.idx + 1]
                    ELSE IF loc.isArr THEN getFromSlice(h, loc.parent, loc.key, loc.idx)
                    ELSE MapGet(Fields(h, loc.parent), loc.key)
         removed == applyRemove(h, target, fromParts)
         added   == applyAdd(removed.h, target, toParts, value)
     IN IF removed.err # "" THEN removed
        ELSE IF added.err # "" THEN Done(h, added.err)
        ELSE added

\* applyMove that leaves the value at from in place (a copy, not a move)
applyMove_keep(h, target, fromParts, toParts) ==
  LET two == isTwoPartArray(h, target, fromParts)
      loc == traverseToParent(h, target, fromParts)
  IN IF ~two.ok /\ loc.err # "" THEN Done(h, loc.err)
     ELSE
     LET value == IF two.ok THEN h[Fields(h, target)[two.key].ref].a[two.idx + 1]
                  ELSE IF loc.isArr THEN getFromSlice(h, loc.parent, loc.key, loc.idx)
                  ELSE MapGet(Fields(h, loc.parent), loc.key)
     IN applyAdd(h, target, toParts, value)

applyMove(h, target, fromParts, toParts) ==
  LET two == isTwoPartArray(h, target, fromParts)
      loc == traverseToParent(h, target, fromParts)
  IN IF ~two.ok /\ loc.err # "" THEN Done(h, loc.err)
     ELSE
     LET value   == IF two.ok THEN h[Fields(h, target)[two.key].ref].a[two.idx + 1]
                    ELSE IF loc.isArr THEN getFromSlice(h, loc.parent, loc.key, loc.idx)
                    ELSE MapGet(Fields(h, loc.parent), loc.key)
         removed == applyRemove(h, target, fromParts)
     IN IF removed.err # "" THEN removed
        ELSE applyAdd(removed.h, target, toParts, value)

\* applyOp that skips an operation it cannot read (empty path, empty from,
\* unknown op code) instead of failing
applyOp_skip(h, target, op) ==
  LET path == parsePath(op.path)
      from == parsePath(op.from)
  IN IF ~path.ok THEN Done(h, "")
     ELSE CASE op.op = "add"     -> applyAdd(h, target, path.parts, op.value)
            [] op.op = "remove"  -> applyRemove(h, target, path.parts)
            [] op.op = "replace" -> applyReplace(h, target, path.parts, op.value)
            [] op.op = "move"    -> IF ~from.ok THEN Done(h, "")
                                    ELSE applyMove(h, target, from.parts, path.parts)
            [] OTHER             -> Done(h, "")

\* one iteration of the loop of ApplyPatch: the operation op on target
applyOp(h, target, op) ==
  LET path == parsePath(op.path)
      from == parsePath(op.from)
  IN IF ~path.ok THEN Done(h, "empty path")
     ELSE CASE op.op = "add"     -> applyAdd(h, target, path.parts, op.value)
            [] op.op = "remove"  -> applyRemove(h, target, path.parts)
            [] op.op = "replace" -> applyReplace(h, target, path.parts, op.value)
            [] op.op = "move"    -> IF ~from.ok THEN Done(h, "empty path")
                                    ELSE applyMove(h, target, from.parts, path.parts)
            [] OTHER             -> Done(h, "unsupported op")

RECURSIVE applyLoop(_, _, _, _)
\* the loop of ApplyPatch from operation i (1-based): stops at the first error
applyLoop(h, target, patches, i) ==
  IF i > Len(patches) THEN [h |-> h, err |-> "", ret |-> target]
  ELSE LET Step(r) == IF r.err # "" THEN [h |-> r.h, err |-> r.err, ret |-> NilV]
                       ELSE applyLoop(r.h, target, patches, i + 1)
       IN Step(applyOp(h, target, patches[i]))

RECURSIVE applyLoop_continue(_, _, _, _)
\* applyLoop that remembers the error but goes on with the next operation
applyLoop_continue(h, target, patches, i) ==
  IF i > Len(patches) THEN [h |-> h, err |-> "", ret |-> target]
  ELSE LET Step(r) ==
             LET rest == applyLoop_continue(r.h, target, patches, i + 1)
             IN IF r.err # "" THEN [h |-> rest.h, err |-> r.err, ret |-> NilV]
                ELSE rest
       IN Step(applyOp(h, target, patches[i]))

ApplyPatch_continue(h, original, patches) ==
  IF ~toMap(original).ok THEN [h |-> h, err |-> "unsupported type", ret |-> NilV]
  ELSE applyLoop_continue(h, toMap(original).v, patches, 1)

ApplyPatch(h, original, patches) ==
  IF ~toMap(original).ok THEN [h |-> h, err |-> "unsupported type", ret |-> NilV]
  ELSE applyLoop(h, toMap(original).v, patches, 1)

(***************************************************************************)
(* Documents and batches the caller may hold.                              *)
(***************************************************************************)
NilT      == ScalarT(NilV)
IntT(i)   == ScalarT(IntV(i))
StrT(str) == ScalarT(StrV(str))

KeyA    == <<"a">>
KeyB    == <<"b">>
KeyC    == <<"c">>
KeyList == <<"l", "i", "s", "t">>

\* the mappings from some of the keys in ks to values in vals
MapsOver(ks, vals) == UNION {[sub -> vals] : sub \in SUBSET ks}

\* the arrays of at most n elements drawn from vals
ArraysOver(vals, n) == UNION {[1..len -> vals] : len \in 0..n}

\* scalars of nested mappings, scalars of top-level keys
NestedScalars == {IntT(i) : i \in 1..MaxDocInt} \cup {NilT}
TopScalars    == NestedScalars \cup {StrT(<<"x">>), StrT(<<" ", "x">>)}

NestedMaps == {MapT(kids) : kids \in MapsOver({KeyA, KeyB}, NestedScalars)}

\* documents of the round-trip specification: key a holds a scalar or a
\* nested mapping, key b a scalar
Docs ==
  {MapT(kids) : kids \in
     {m \in MapsOver({KeyA, KeyB}, TopScalars \cup NestedMaps) :
        KeyB \in DOMAIN m => m[KeyB] \in TopScalars}}

KeyOrders == {<<KeyA, KeyB>>, <<KeyB, KeyA>>}

\* documents of the array specification: one array under the key "list"
ArrayElems == {IntT(i) : i \in 1..MaxInt}
ArrayDocs  == {MapT([x \in {KeyList} |-> SliceT(es)]) : es \in ArraysOver(ArrayElems, MaxArrLen)}

\* documents of the applicator specification
ApplyDocs ==
  { MapT((KeyA :> IntT(1)) @@ (KeyB :> MapT(KeyA :> IntT(1)))),
    MapT((KeyA :> SliceT(<<IntT(1), IntT(2)>>))
         @@ (KeyB :> MapT(KeyA :> SliceT(<<IntT(1), IntT(2)>>)))) }

\* the path "/" seg1 "/" seg2 ...
RECURSIVE Pointer(_)
Pointer(segs) == IF segs = <<>> THEN <<>> ELSE <<"/">> \o Head(segs) \o Pointer(Tail(segs))

\* the paths of hand-written operations: existing and missing keys, valid,
\* appending and invalid indices, at the top level and one level down
PathPool ==
  { <<>>,
    Pointer(<<KeyA>>), Pointer(<<KeyC>>),
    Pointer(<<KeyB, KeyA>>), Pointer(<<KeyB, KeyC>>),
    Pointer(<<KeyC, KeyA>>), Pointer(<<KeyB, KeyC, KeyA>>),
    Pointer(<<KeyA, <<"0">>>>), Pointer(<<KeyA, <<"2">>>>), Pointer(<<KeyA, <<"-", "1">>>>),
    Pointer(<<KeyB, KeyA, <<"0">>>>), Pointer(<<KeyB, KeyA, <<"2">>>>) }

MoveFroms == { <<>>, Pointer(<<KeyA>>), Pointer(<<KeyB, KeyA>>), Pointer(<<KeyC, KeyA>>),
               Pointer(<<KeyA, <<"0">>>>), Pointer(<<KeyC>>), Pointer(<<KeyA, <<"2">>>>) }
MoveTos   == { Pointer(<<KeyC>>), Pointer(<<KeyC, KeyA>>), Pointer(<<KeyB, KeyC>>),
               Pointer(<<KeyA, <<"1">>>>), Pointer(<<KeyB>>) }

NewValue == IntV(9)

OpPool ==
  {Patch("add", p, <<>>, NewValue) : p \in PathPool}
  \cup {Patch("remove", p, <<>>, NilV) : p \in PathPool}
  \cup {Patch("replace", p, <<>>, NewValue) : p \in PathPool}
  \cup {Patch("move", p, f, NilV) : p \in MoveTos, f \in MoveFroms}
  \cup {Patch("copy", Pointer(<<KeyA>>), <<>>, NilV)}

\* operations placed around the operation under study
PadPool ==
  { Patch("add", Pointer(<<KeyC>>), <<>>, NewValue),
    Patch("remove", Pointer(<<KeyB>>), <<>>, NilV),
    Patch("replace", Pointer(<<KeyA>>), <<>>, NewValue),
    Patch("remove", Pointer(<<KeyA, <<"0">>>>), <<>>, NilV),
    Patch("add", Pointer(<<KeyB, KeyC>>), <<>>, NewValue) }

Pads == UNION {[1..len -> PadPool] : len \in 0..MaxPad}

Batches == {<<>>} \cup {pre \o <<op>> \o post : pre \in Pads, op \in OpPool, post \in Pads}

VARIABLES
  heap,      \* the objects maps and slices refer to
  before,    \* the caller's before document (the original given to ApplyPatch)
  after,     \* the caller's after document
  ord,       \* the order in which GeneratePatch visits keys
  pc,        \* "start", "have_patch", "applied"
  patches,   \* the batch returned by GeneratePatch or written by the caller
  genSt,     \* how GeneratePatch ended: "ok", "error", "panic"
  ret,       \* the document ApplyPatch returned (NilV with an error)
  applyErr,  \* the error ApplyPatch returned ("" is nil)
  heap0,     \* the heap before any operation ran
  record,    \* the struct a caller hands to toMap
  normal,    \* what toMap made of it
  types,     \* the registry of the polymorphic package
  log,       \* the Register calls made so far
  call       \* the last call into the polymorphic package and what it returned

vars == <<heap, before, after, ord, pc, patches, genSt, ret, applyErr, heap0,
          record, normal, types, log, call>>

\* the variables of the struct normaliser and of the type registry
lib == <<record, normal, types, log, call>>

\* the variables of the differ and the applicator
docs == <<heap, before, after, ord, patches, genSt, ret, applyErr, heap0>>

\* a call into the polymorphic package with what it returned: the factory
\* (of LoadFactory), the error (<<>> is nil) and the bytes (of Marshal)
Call(fn, d, factory, err, out) ==
  [fn |-> fn, d |-> d, factory |-> factory, err |-> err, out |-> out]

NoCall == Call("", "", NilFactory, <<>>, NilBytes)

\* nothing was normalised or registered
LibIdle ==
  /\ record = Data("", <<>>)
  /\ normal = [st |-> "", m |-> EmptyMap]
  /\ types = EmptyMap
  /\ log = <<>>
  /\ call = NoCall

\* the caller builds the two documents as literals
TwoDocs(A, B, o) ==
  LET ra == Alloc(<<>>, A)
      rb == Alloc(ra.h, B)
  IN /\ heap = rb.h
     /\ heap0 = rb.h
     /\ before = ra.v
     /\ after = rb.v
     /\ ord = o
     /\ pc = "start"
     /\ patches = <<>>
     /\ genSt = ""
     /\ ret = NilV
     /\ applyErr = ""
     /\ LibIdle

Init == \E A \in Docs, B \in Docs, o \in KeyOrders : TwoDocs(A, B, o)

\* The array differ reads its elements only through deepEqualFiltered, so
\* renaming the integers of both arrays changes no decision it takes.  The
\* before array is therefore taken with its integers numbered by first
\* appearance (1, then 2, ...); the after array is any array.
NumberedByFirstUse(es) ==
  \A i \in 1..Len(es) : es[i].n = 1 \/ \E j \in 1..(i - 1) : es[j].n = es[i].n - 1

BeforeArrayDocs == {D \in ArrayDocs : NumberedByFirstUse(D.kids[KeyList].elems)}

InitArr == \E A \in BeforeArrayDocs, B \in ArrayDocs : TwoDocs(A, B, <<KeyList>>)

\* patches, err := GeneratePatch(before, after, "")
Generate ==
  /\ pc = "start"
  /\ LET Returns(r) == /\ patches' = r.ops
                        /\ genSt' = r.st
     IN Returns(GeneratePatch(heap, before, after, <<>>, ord))
  /\ pc' = "have_patch"
  /\ UNCHANGED <<heap, before, after, ord, ret, applyErr, heap0>>
  /\ UNCHANGED lib

\* result, err := ApplyPatch(before, patches)
Apply ==
  /\ pc = "have_patch"
  /\ genSt = "ok"
  /\ LET Returns(r) == /\ heap' = r.h
                        /\ ret' = r.ret
                        /\ applyErr' = r.err
     IN Returns(ApplyPatch(heap, before, patches))
  /\ pc' = "applied"
  /\ UNCHANGED <<before, after, ord, patches, genSt, heap0>>
  /\ UNCHANGED lib

Next == Generate \/ Apply

Spec == Init /\ [][Next]_vars

SpecArr == InitArr /\ [][Next]_vars

\* the caller holds one document and a batch written by hand
InitApply ==
  \E A \in ApplyDocs, batch \in Batches :
    LET ra == Alloc(<<>>, A)
    IN /\ heap = ra.h
       /\ heap0 = ra.h
       /\ before = ra.v
       /\ after = NilV
       /\ ord = <<>>
       /\ pc = "have_patch"
       /\ patches = batch
       /\ genSt = "ok"
       /\ ret = NilV
       /\ applyErr = ""
       /\ LibIdle

NextApply == Apply

SpecApply == InitApply /\ [][NextApply]_vars

\* strings that are equal or different once trimmed
ScalarStrs == {StrT(<<"x">>), StrT(<<" ", "x">>), StrT(<<"x", " ">>), StrT(<<" ", "y">>)}
ElemStrs   == {StrT(<<"x">>), StrT(<<" ", "x">>), StrT(<<" ", "y">>)}

\* documents of the white-space specification: a string under the key a
\* (or no key a) and an array of strings under the key "list"
StrDocs ==
  {MapT((KeyList :> SliceT(es)) @@ kid) :
     es  \in ArraysOver(ElemStrs, MaxStrArrLen),
     kid \in MapsOver({KeyA}, ScalarStrs)}

InitStr == \E A \in StrDocs, B \in StrDocs : TwoDocs(A, B, <<KeyA, KeyList>>)

SpecStr == InitStr /\ [][Next]_vars

\* values of every shape: scalars of three types, null, mappings, sequences
Shapes ==
  { IntT(1), StrT(<<"x">>), NilT,
    MapT(EmptyMap), MapT(KeyA :> IntT(1)),
    SliceT(<<>>), SliceT(<<IntT(1)>>) }

\* documents of the shape specification: a value of any shape under the key
\* a (or no key a), and under the key b a mapping holding a value of any
\* shape but null under its key a (or no key b)
ShapeDocs ==
  {MapT(top @@ nest) :
     top  \in MapsOver({KeyA}, Shapes),
     nest \in {[x \in {KeyB} |-> MapT(kid)] : kid \in MapsOver({KeyA}, Shapes \ {NilT})}
            \cup {EmptyMap}}

InitShape == \E A \in ShapeDocs, B \in ShapeDocs : TwoDocs(A, B, <<KeyA, KeyB>>)

SpecShape == InitShape /\ [][Next]_vars

\* no document is in play
DocsIdle ==
  /\ heap = <<>>
  /\ heap0 = <<>>
  /\ before = NilV
  /\ after = NilV
  /\ ord = <<>>
  /\ patches = <<>>
  /\ genSt = ""
  /\ ret = NilV
  /\ applyErr = ""

Omitempty == <<",", "o", "m", "i", "t", "e", "m", "p", "t", "y">>

\* json tags: none, a name, a name with an option, an option alone, the
\* omission mark, the declared name of another field
TagPool ==
  { <<>>, KeyA, KeyA \o Omitempty, Omitempty, <<"-">>, <<"B">> }

\* declared field names, one of them not exported
FieldNames == { <<"A">>, <<"B">>, <<"c">> }

\* the field lists of a struct type: distinct names, any tags, the value of
\* a field is its position
FieldLists ==
  UNION { { [i \in 1..len |-> Field(names[i], tags[i], IntV(i))] :
              names \in {ns \in [1..len -> FieldNames] :
                           \A i, j \in 1..len : ns[i] = ns[j] => i = j},
              tags \in [1..len -> TagPool] } : len \in 0..MaxFields }

Records ==
  {Data(kind, fields) : kind \in {"struct", "ptr"}, fields \in FieldLists}
  \cup {Data("int", <<>>)}

InitStruct ==
  \E r \in Records :
    /\ DocsIdle
    /\ pc = "start"
    /\ record = r
    /\ normal = [st |-> "", m |-> EmptyMap]
    /\ types = EmptyMap
    /\ log = <<>>
    /\ call = NoCall

\* m, err := toMap(record)
Normalize ==
  /\ pc = "start"
  /\ normal' = toMap_struct(record)
  /\ pc' = "normalized"
  /\ UNCHANGED docs
  /\ UNCHANGED <<record, types, log, call>>

NextStruct == Normalize

SpecStruct == InitStruct /\ [][NextStruct]_vars

\* discriminators, factories (one of them nil) and contents (one of them
\* without a JSON form) of the registry specification
Discriminators == {"Person", "UnregisteredPerson"}
Factories      == {"newPerson", "newOther", NilFactory}
Contents       == {"person", "chan"}

InitRegistry ==
  /\ DocsIdle
  /\ pc = "registry"
  /\ LibIdle

\* polymorphic.Register(d, factory)
Register ==
  /\ Len(log) < MaxRegister
  /\ \E d \in Discriminators, factory \in Factories :
       /\ types' = Store(types, d, factory)
       /\ log' = Append(log, [d |-> d, factory |-> factory])
       /\ call' = Call("Register", d, factory, <<>>, NilBytes)
  /\ UNCHANGED docs
  /\ UNCHANGED <<pc, record, normal>>

\* factory, err := polymorphic.LoadFactory(d)
Load ==
  /\ \E d \in Discriminators :
       call' = Call("LoadFactory", d, LoadFactory(types, d).factory,
                    LoadFactory(types, d).err, NilBytes)
  /\ UNCHANGED docs
  /\ UNCHANGED <<pc, record, normal, types, log>>

\* bytes, err := polymorphic.MarshalPolymorphicJSON(d, obj)
Marshal ==
  /\ \E d \in Discriminators, obj \in Contents :
       call' = Call("MarshalPolymorphicJSON", d, NilFactory,
                    MarshalPolymorphicJSON(types, d, obj).err,
                    MarshalPolymorphicJSON(types, d, obj).out)
  /\ UNCHANGED docs
  /\ UNCHANGED <<pc, record, normal, types, log>>

NextRegistry == Register \/ Load \/ Marshal

SpecRegistry == InitRegistry /\ [][NextRegistry]_vars

\* documents of the index specification: a sequence at the top level and
\* one in a nested mapping, of two elements or empty
IndexDocs ==
  { MapT((KeyA :> SliceT(es)) @@ (KeyB :> MapT(KeyA :> SliceT(es)))) :
      es \in {<<IntT(1), IntT(2)>>, <<>>} }

\* index segments: no number, negative, within 0..1, the length, past it
IndexPool == { <<"x">>, <<"-", "1">>, <<"0">>, <<"1">>, <<"2">>, <<"3">> }

IndexOps ==
  {Patch(op, Pointer(up \o <<idx>>), <<>>, IF op = "remove" THEN NilV ELSE NewValue) :
     op \in {"add", "remove", "replace"}, up \in {<<KeyA>>, <<KeyB, KeyA>>}, idx \in IndexPool}

\* the caller holds a document with sequences and a hand-written batch
\* ending in an operation on an index
InitIndex ==
  \E A \in IndexDocs, pre \in Pads, op \in IndexOps :
    LET ra == Alloc(<<>>, A)
    IN /\ heap = ra.h
       /\ heap0 = ra.h
       /\ before = ra.v
       /\ after = NilV
       /\ ord = <<>>
       /\ pc = "have_patch"
       /\ patches = pre \o <<op>>
       /\ genSt = "ok"
       /\ ret = NilV
       /\ applyErr = ""
       /\ LibIdle

SpecIndex == InitIndex /\ [][NextApply]_vars

\* patches, err := GeneratePatch(before, after, "") of jsonpatch/patch.go
GeneratePositional ==
  /\ pc = "start"
  /\ LET Returns(r) == /\ patches' = r.ops
                        /\ genSt' = r.st
     IN Returns(GeneratePatch_positional(heap, before, after, <<>>, ord))
  /\ pc' = "have_patch"
  /\ UNCHANGED <<heap, before, after, ord, ret, applyErr, heap0>>
  /\ UNCHANGED lib

\* the two arrays are diffed by either variant of the differ
NextVariants == Generate \/ GeneratePositional \/ Apply

SpecVariants == InitArr /\ [][NextVariants]_vars

\* operations a caller applies later to the document ApplyPatch returned:
\* they write inside the value held under the key a
MutatePool ==
  { Patch("add", Pointer(<<KeyA, KeyC>>), <<>>, NewValue),
    Patch("remove", Pointer(<<KeyA, KeyA>>), <<>>, NilV) }

\* result, err = ApplyPatch(result, []Patch{op}): the caller goes on working
\* on the document it got back
Mutate ==
  /\ pc = "applied"
  /\ applyErr = ""
  /\ \E op \in MutatePool :
       LET Returns(r) == /\ heap' = r.h
                         /\ ret' = r.ret
                         /\ applyErr' = r.err
       IN Returns(ApplyPatch(heap, ret, <<op>>))
  /\ pc' = "mutated"
  /\ UNCHANGED <<before, after, ord, patches, genSt, heap0>>
  /\ UNCHANGED lib

NextAlias == Generate \/ Apply \/ Mutate

SpecAlias == Init /\ [][NextAlias]_vars

(***************************************************************************)
(* Properties.                                                             *)
(***************************************************************************)
RECURSIVE Trimmed(_)
\* the tree with every string scalar stripped of leading and trailing space
Trimmed(tree) ==
  CASE tree.t = "map"    -> MapT([x \in DOMAIN tree.kids |-> Trimmed(tree.kids[x])])
    [] tree.t = "slice"  -> SliceT([i \in 1..Len(tree.elems) |-> Trimmed(tree.elems[i])])
    [] tree.t = "string" -> StrT(TrimSpace(tree.s))
    [] OTHER             -> tree

\* the documents the caller handed over, as they were before any call
Before0 == Deref(heap0, before)
After0  == Deref(heap0, after)

\* C1: round trip.  GeneratePatch(A, B, "") returns without error, and
\* ApplyPatch(A, that batch) returns no error and a document deep-equal to B
\* up to leading and trailing white space of strings.
C1_RoundTrip ==
  /\ pc = "have_patch" => genSt = "ok"
  /\ pc = "applied" => /\ applyErr = ""
                       /\ Trimmed(Deref(heap, ret)) = Trimmed(After0)

\* C2: no-op diff.  GeneratePatch(A, A, "") returns no error and an empty
\* list of operations.
C2_NoOpDiff ==
  (pc = "have_patch" /\ Before0 = After0) => (genSt = "ok" /\ patches = <<>>)

\* C3: ApplyPatch never mutates the caller's original: after the call the
\* original map and everything reachable from it are as before the call.
C3_OriginalUntouched ==
  pc = "applied" => Deref(heap, before) = Before0

(***************************************************************************)
(* ApplyPatch on hand-written batches.                                     *)
(***************************************************************************)
RECURSIVE HeapAfter(_)
\* the heap after the first k operations of the batch ran one at a time,
\* each on the heap the previous one left
HeapAfter(k) == IF k = 0 THEN heap0 ELSE applyOp(HeapAfter(k - 1), before, patches[k]).h

\* the error of operation k run on the heap operations 1..k-1 left
ErrAt(k) == applyOp(HeapAfter(k - 1), before, patches[k]).err

\* the first operation of the batch that fails, if any
FirstFailure == {k \in 1..Len(patches) : ErrAt(k) # "" /\ \A j \in 1..(k - 1) : ErrAt(j) = ""}

\* C4: operations are applied in batch order, each on the result of the
\* earlier ones; when operation k fails ApplyPatch returns its error and no
\* document, later operations are not applied and what operations before k
\* did stays on the caller's document.
C4_StopAtFirstFailure ==
  pc = "applied" =>
    /\ FirstFailure = {} => /\ applyErr = ""
                            /\ ret = before
                            /\ heap = HeapAfter(Len(patches))
    /\ \A k \in FirstFailure : /\ applyErr = ErrAt(k)
                               /\ ret = NilV
                               /\ heap = HeapAfter(k)

\* a batch failed at an operation that has operations after it, and the work
\* of the operations before it shows on the caller's document
C4_Witness ==
  /\ pc = "applied"
  /\ applyErr # ""
  /\ \E k \in FirstFailure : k > 1 /\ k < Len(patches)
  /\ Deref(heap, before) # Before0

RECURSIVE missingKeyFrom(_, _, _, _)
\* walking mappings from cur, some segment before the last one (from the
\* i-th on) names a key the mapping reached does not have
missingKeyFrom(h, cur, parts, i) ==
  /\ i < Len(parts)
  /\ \/ parts[i] \notin DOMAIN Fields(h, cur)
     \/ /\ Fields(h, cur)[parts[i]].t = "map"
        /\ missingKeyFrom(h, Fields(h, cur)[parts[i]], parts, i + 1)

Segments(path) == Split(Trim(path, {"/"}), "/")

PathMissesKey(h, path) == path # <<>> /\ missingKeyFrom(h, before, Segments(path), 1)

\* operation k is an add, remove, replace or move that runs (nothing before
\* it failed) and whose path, or from for a move, crosses a missing key
CrossesMissingKey(k) ==
  /\ patches[k].op \in {"add", "remove", "replace", "move"}
  /\ \A j \in 1..(k - 1) : ErrAt(j) = ""
  /\ \/ PathMissesKey(HeapAfter(k - 1), patches[k].path)
     \/ patches[k].op = "move" /\ PathMissesKey(HeapAfter(k - 1), patches[k].from)

\* C5 as stated: such an operation makes ApplyPatch return an error and
\* leaves the document as it found it.
C5_MissingKeyFailsUnchanged ==
  pc = "applied" =>
    \A k \in 1..Len(patches) : CrossesMissingKey(k) =>
      /\ applyErr # ""
      /\ Deref(heap, before) = Deref(HeapAfter(k - 1), before)

\* operation k is a move whose from is a path that crosses no missing key
MoveFromResolves(k) ==
  /\ patches[k].op = "move"
  /\ patches[k].from # <<>>
  /\ ~PathMissesKey(HeapAfter(k - 1), patches[k].from)

\* C5 amended: such an operation makes ApplyPatch return an error; it leaves
\* the document as it found it, except that a move whose from crosses no
\* missing key has carried out its removal at from.
C5_MissingKeyFails ==
  pc = "applied" =>
    \A k \in 1..Len(patches) : CrossesMissingKey(k) =>
      /\ applyErr # ""
      /\ IF MoveFromResolves(k)
         THEN Deref(heap, before) =
                Deref(applyRemove(HeapAfter(k - 1), before, Segments(patches[k].from)).h, before)
         ELSE Deref(heap, before) = Deref(HeapAfter(k - 1), before)

\* an operation crossing a missing key ran and failed; it was not a move
\* that could remove anything, and the document is as the operation found it
C5_Witness ==
  /\ pc = "applied"
  /\ applyErr # ""
  /\ \E k \in 1..Len(patches) :
       /\ CrossesMissingKey(k)
       /\ ~MoveFromResolves(k)
       /\ k > 1
       /\ Deref(heap, before) # Before0

(***************************************************************************)
(* The array differ, on the document pairs {"list": X} / {"list": Y}.      *)
(***************************************************************************)
\* the two arrays, as trees, 1-based
BeforeList == Before0.kids[KeyList].elems
AfterList  == After0.kids[KeyList].elems

\* equality of array elements as the differ sees it: strings up to leading
\* and trailing white space, anything else by deep equality
TreeEq(x, y) == IF x.t = "string" /\ y.t = "string"
                THEN TrimSpace(x.s) = TrimSpace(y.s)
                ELSE x = y

SeqEq(xs, ys) == Len(xs) = Len(ys) /\ \A i \in 1..Len(xs) : TreeEq(xs[i], ys[i])

\* the 0-based indices at which two arrays of equal length differ
DiffAt == {i \in 0..(Len(BeforeList) - 1) : ~TreeEq(BeforeList[i + 1], AfterList[i + 1])}

\* xs without its element at 0-based index k
Without(xs, k) == SubSeq(xs, 1, k) \o SubSeq(xs, k + 2, Len(xs))

ListPath(i) == Pointer(<<KeyList, Itoa(i)>>)

OpsOfKind(op) == {i \in 1..Len(patches) : patches[i].op = op}

\* before and after are the same but for two swapped elements at i < j
SwapCase(i, j) ==
  /\ Len(BeforeList) = Len(AfterList)
  /\ DiffAt = {i, j}
  /\ i < j
  /\ TreeEq(BeforeList[i + 1], AfterList[j + 1])
  /\ TreeEq(BeforeList[j + 1], AfterList[i + 1])

\* C6: swap detection.  For arrays of equal length that differ at exactly
\* two indices i < j holding each other's elements, the diff is exactly one
\* operation: move with from = /list/i and path = /list/j.
C6_SwapIsOneMove ==
  pc = "have_patch" =>
    \A i, j \in 0..(Len(BeforeList) - 1) : SwapCase(i, j) =>
      /\ genSt = "ok"
      /\ patches = <<Patch("move", ListPath(j), ListPath(i), NilV)>>

\* a swap of two elements that are not neighbours has been diffed
C6_Witness ==
  /\ pc = "have_patch"
  /\ \E i, j \in 0..(Len(BeforeList) - 1) : SwapCase(i, j) /\ j > i + 1
  /\ Len(patches) = 1

RECURSIVE IsSubseq(_, _)
\* xs can be obtained from ys by deleting elements
IsSubseq(xs, ys) ==
  IF xs = <<>> THEN TRUE
  ELSE IF ys = <<>> THEN FALSE
  ELSE IF TreeEq(Head(xs), Head(ys)) THEN IsSubseq(Tail(xs), Tail(ys))
  ELSE IsSubseq(xs, Tail(ys))

RECURSIVE Pick(_, _, _)
\* the elements of xs at the (1-based) positions in I, from position i on
Pick(xs, I, i) ==
  IF i > Len(xs) THEN <<>>
  ELSE (IF i \in I THEN <<xs[i]>> ELSE <<>>) \o Pick(xs, I, i + 1)

\* the length of a longest common subsequence of before and after
LcsLength ==
  LET common == {I \in SUBSET (1..Len(BeforeList)) : IsSubseq(Pick(BeforeList, I, 1), AfterList)}
  IN CHOOSE l \in 0..Len(BeforeList) :
       /\ \E I \in common : Cardinality(I) = l
       /\ \A I \in common : Cardinality(I) <= l

\* after is before with one element deleted
OneDeleted ==
  /\ Len(AfterList) = Len(BeforeList) - 1
  /\ \E k \in 0..(Len(BeforeList) - 1) : SeqEq(Without(BeforeList, k), AfterList)

\* C7: LCS minimality.  When after is before with one element deleted the
\* diff is exactly one remove, at an index whose deletion yields after; for
\* arrays of unequal lengths m and n with LCS length L the diff is exactly
\* m-L removes and n-L adds.
C7_LcsMinimal ==
  pc = "have_patch" =>
    /\ genSt = "ok"
    /\ OneDeleted =>
         /\ Len(patches) = 1
         /\ patches[1].op = "remove"
         /\ \E k \in 0..(Len(BeforeList) - 1) :
              /\ patches[1].path = ListPath(k)
              /\ SeqEq(Without(BeforeList, k), AfterList)
    /\ Len(BeforeList) # Len(AfterList) =>
         /\ Cardinality(OpsOfKind("remove")) = Len(BeforeList) - LcsLength
         /\ Cardinality(OpsOfKind("add")) = Len(AfterList) - LcsLength
         /\ Len(patches) = Len(BeforeList) + Len(AfterList) - 2 * LcsLength

\* an element was deleted from the middle of an array of distinct elements
\* and the diff is the one remove of it
C7_Witness ==
  /\ pc = "have_patch"
  /\ OneDeleted
  /\ Len(BeforeList) >= 3
  /\ \A i, j \in 1..Len(BeforeList) : i # j => BeforeList[i] # BeforeList[j]
  /\ patches = <<Patch("remove", ListPath(1), <<>>, NilV)>>

\* the index sets the LCS walk computed for the two arrays
Common == lcsCommon(heap0, Elems(heap0, Fields(heap0, before)[KeyList]),
                           Elems(heap0, Fields(heap0, after)[KeyList]))

\* the operations of the batch on index i
OpsOnIndex(i) == {p \in 1..Len(patches) : patches[p].path = ListPath(i)}

\* the general half of C8: for equal lengths off the swap path, an index
\* that is both removed and added yields one replace carrying after's
\* element, an index only removed one remove, an index only added one add
MergedPerIndex ==
  (Len(BeforeList) = Len(AfterList) /\ OpsOfKind("move") = {}) =>
    /\ \A p \in 1..Len(patches) : \E i \in 0..(Len(BeforeList) - 1) : p \in OpsOnIndex(i)
    /\ \A i \in 0..(Len(BeforeList) - 1) :
         LET removed == i \notin Common.commonBefore
             added   == i \notin Common.commonAfter
         IN /\ Cardinality(OpsOnIndex(i)) = IF removed \/ added THEN 1 ELSE 0
            /\ \A p \in OpsOnIndex(i) :
                 /\ patches[p].op = IF removed /\ added THEN "replace"
                                    ELSE IF removed THEN "remove" ELSE "add"
                 /\ added => Deref(heap0, patches[p].value) = AfterList[i + 1]

\* C8 as stated: arrays of equal length that differ at exactly one index k
\* diff to exactly one replace at /list/k carrying after[k]; and the
\* general half.
C8_OneDifferenceOneReplace ==
  pc = "have_patch" =>
    /\ \A k \in 0..(Len(BeforeList) - 1) :
         (Len(BeforeList) = Len(AfterList) /\ DiffAt = {k}) =>
           /\ Len(patches) = 1
           /\ patches[1].op = "replace"
           /\ patches[1].path = ListPath(k)
           /\ Deref(heap0, patches[1].value) = AfterList[k + 1]
    /\ MergedPerIndex

\* C8 amended: arrays of equal length that differ at exactly one index k
\* diff to exactly one replace at /list/k carrying after[k] when the LCS
\* walk leaves k outside the common subsequence on both sides, and otherwise
\* to one remove and one add on two different indices; and the general half.
C8_SameLengthCompaction ==
  pc = "have_patch" =>
    /\ \A k \in 0..(Len(BeforeList) - 1) :
         (Len(BeforeList) = Len(AfterList) /\ DiffAt = {k}) =>
           IF k \notin Common.commonBefore /\ k \notin Common.commonAfter
           THEN /\ Len(patches) = 1
                /\ patches[1].op = "replace"
                /\ patches[1].path = ListPath(k)
                /\ Deref(heap0, patches[1].value) = AfterList[k + 1]
           ELSE /\ Len(patches) = 2
                /\ Cardinality(OpsOfKind("remove")) = 1
                /\ Cardinality(OpsOfKind("add")) = 1
                /\ patches[1].path # patches[2].path
    /\ MergedPerIndex

\* two arrays that differ in their last element only were diffed to one
\* replace
C8_Witness ==
  /\ pc = "have_patch"
  /\ Len(BeforeList) = Len(AfterList)
  /\ Len(BeforeList) >= 2
  /\ DiffAt = {Len(BeforeList) - 1}
  /\ Len(patches) = 1
  /\ patches[1].op = "replace"

(***************************************************************************)
(* The structural differ, on the document pairs of the round-trip          *)
(* specification.                                                          *)
(***************************************************************************)
TopKeys == (DOMAIN Before0.kids) \cup (DOMAIN After0.kids)

IsScalarT(tree) == tree.t \notin {"map", "slice"}

\* the operations of the batch whose path is exactly path
OpsAt(path) == {p \in 1..Len(patches) : patches[p].path = path}

\* path continues prefix with "/" and more
Under(prefix, path) ==
  /\ Len(path) > Len(prefix) + 1
  /\ SubSeq(path, 1, Len(prefix) + 1) = prefix \o <<"/">>

\* C9: per-key classification at the top level.  GeneratePatch returns, and
\* for a key that is absent or scalar on both sides it emits exactly one add
\* with after's value when only after has the key, exactly one remove when
\* only before has it, exactly one replace with after's value when both
\* have it with unequal values, and nothing when the values are equal; the
\* path is "/" followed by the key.
C9_PerKeyClassification ==
  pc = "have_patch" =>
    /\ genSt = "ok"
    /\ \A key \in TopKeys :
         LET inB  == key \in DOMAIN Before0.kids
             inA  == key \in DOMAIN After0.kids
             path == <<"/">> \o key
         IN ((inB => IsScalarT(Before0.kids[key])) /\ (inA => IsScalarT(After0.kids[key]))) =>
              /\ \A p \in 1..Len(patches) : ~Under(path, patches[p].path)
              /\ IF inA /\ ~inB
                 THEN \E p \in 1..Len(patches) :
                        /\ OpsAt(path) = {p}
                        /\ patches[p].op = "add"
                        /\ Deref(heap0, patches[p].value) = After0.kids[key]
                 ELSE IF inB /\ ~inA
                 THEN \E p \in 1..Len(patches) : OpsAt(path) = {p} /\ patches[p].op = "remove"
                 ELSE IF ~TreeEq(Before0.kids[key], After0.kids[key])
                 THEN \E p \in 1..Len(patches) :
                        /\ OpsAt(path) = {p}
                        /\ patches[p].op = "replace"
                        /\ Deref(heap0, patches[p].value) = After0.kids[key]
                 ELSE OpsAt(path) = {}

RECURSIVE SelectUnder(_, _)
\* the operations of ops whose path lies under prefix, in order
SelectUnder(prefix, ops) ==
  IF ops = <<>> THEN <<>>
  ELSE (IF Under(prefix, Head(ops).path) THEN <<Head(ops)>> ELSE <<>>)
       \o SelectUnder(prefix, Tail(ops))

\* C10: nested mappings are diffed recursively.  When key a holds a mapping
\* on both sides, the operations emitted under /a are exactly those of
\* diffing the two nested mappings with base path /a, and no operation is
\* emitted at /a itself.
C10_NestedRecursion ==
  (/\ pc = "have_patch"
   /\ KeyA \in DOMAIN Before0.kids /\ Before0.kids[KeyA].t = "map"
   /\ KeyA \in DOMAIN After0.kids /\ After0.kids[KeyA].t = "map") =>
    LET nested == GeneratePatch(heap0, Fields(heap0, before)[KeyA],
                                Fields(heap0, after)[KeyA], Pointer(<<KeyA>>), ord)
    IN /\ SelectUnder(Pointer(<<KeyA>>), patches) = nested.ops
       /\ OpsAt(Pointer(<<KeyA>>)) = {}

(***************************************************************************)
(* The operations of ApplyPatch, on hand-written batches.  Documents are   *)
(* compared as trees.                                                      *)
(***************************************************************************)
\* operation k of the batch runs: no operation before it failed
Runs(k) == k \in 1..Len(patches) /\ \A j \in 1..(k - 1) : ErrAt(j) = ""

\* the caller's document after the first k operations
DocAt(k) == Deref(HeapAfter(k), before)

\* operation k ran last and ApplyPatch returned the document `expected`
ReturnedIfLast(k, expected) ==
  k = Len(patches) => (applyErr = "" /\ Deref(heap, ret) = expected)

\* C11: move between mapping keys.  A move with from = /x and path = /y,
\* x and y different keys and x present in the mapping, succeeds and yields
\* the document in which y holds the value x had, x is absent and every
\* other key and value is as before.
C11_MoveBetweenKeys ==
  pc = "applied" =>
    \A k \in 1..Len(patches) : \A x, y \in {KeyA, KeyB, KeyC} :
      (/\ patches[k].op = "move"
       /\ patches[k].from = Pointer(<<x>>)
       /\ patches[k].path = Pointer(<<y>>)
       /\ x # y
       /\ Runs(k)
       /\ x \in DOMAIN DocAt(k - 1).kids) =>
        LET D        == DocAt(k - 1)
            expected == MapT(MapSet(MapDelete(D.kids, x), y, D.kids[x]))
        IN /\ ErrAt(k) = ""
           /\ DocAt(k) = expected
           /\ ReturnedIfLast(k, expected)

\* a move from /a onto the existing key b ended a batch: b holds what a
\* held, a is gone
C11_Witness ==
  /\ pc = "applied"
  /\ applyErr = ""
  /\ Len(patches) >= 1
  /\ patches[Len(patches)] = Patch("move", Pointer(<<KeyB>>), Pointer(<<KeyA>>), NilV)
  /\ KeyA \in DOMAIN DocAt(Len(patches) - 1).kids
  /\ KeyB \in DOMAIN DocAt(Len(patches) - 1).kids
  /\ KeyA \notin DOMAIN Deref(heap, ret).kids
  /\ Deref(heap, ret).kids[KeyB] = DocAt(Len(patches) - 1).kids[KeyA]

RECURSIVE TreeLookup(_, _)
\* the subtree reached from tree by following parts through mappings
TreeLookup(tree, parts) ==
  IF parts = <<>> THEN [found |-> TRUE, tree |-> tree]
  ELSE IF tree.t = "map" /\ Head(parts) \in DOMAIN tree.kids
       THEN TreeLookup(tree.kids[Head(parts)], Tail(parts))
       ELSE [found |-> FALSE, tree |-> NilT]

RECURSIVE TreeReplace(_, _, _)
\* tree with the subtree at parts exchanged for sub
TreeReplace(tree, parts, sub) ==
  IF parts = <<>> THEN sub
  ELSE MapT([tree.kids EXCEPT ![Head(parts)] = TreeReplace(@, Tail(parts), sub)])

\* all segments of a path but the last, and the last
Upper(path) == SubSeq(Segments(path), 1, Len(Segments(path)) - 1)
Last(path)  == Segments(path)[Len(Segments(path))]

\* the container an operation's path ends in, on the document operation k finds
Container(k) == TreeLookup(DocAt(k - 1), Upper(patches[k].path))

\* the value operation k carries, as a tree
ValueOf(k) == Deref(HeapAfter(k - 1), patches[k].value)

\* es with v inserted before 0-based index n (n = Len(es) appends)
InsertAt(es, n, v) == SubSeq(es, 1, n) \o <<v>> \o SubSeq(es, n + 1, Len(es))

\* C12: add at any depth.  An add that runs and whose path ends in a
\* sequence, at the top level or deeper, appends when the index equals the
\* length and inserts before the index when it is within bounds; an add
\* whose path ends in a mapping sets the key, overwriting what it held.
C12_AddAtAnyDepth ==
  pc = "applied" =>
    \A k \in 1..Len(patches) :
      (patches[k].op = "add" /\ patches[k].path # <<>> /\ Runs(k) /\ Container(k).found) =>
        LET D   == DocAt(k - 1)
            c   == Container(k).tree
            up  == Upper(patches[k].path)
            idx == Atoi(Last(patches[k].path))
        IN /\ (c.t = "slice" /\ idx.ok /\ idx.n >= 0 /\ idx.n <= Len(c.elems)) =>
                /\ ErrAt(k) = ""
                /\ DocAt(k) = TreeReplace(D, up, SliceT(InsertAt(c.elems, idx.n, ValueOf(k))))
           /\ c.t = "map" =>
                /\ ErrAt(k) = ""
                /\ DocAt(k) = TreeReplace(D, up, MapT(MapSet(c.kids, Last(patches[k].path), ValueOf(k))))

\* path ends at a place that does not exist in the container it reaches in
\* document D: a key the mapping lacks, or an index outside 0..len-1 of the
\* sequence
AbsentIn(D, path) ==
  /\ path # <<>>
  /\ LET c   == TreeLookup(D, Upper(path))
         idx == Atoi(Last(path))
     IN /\ c.found
        /\ \/ c.tree.t = "map" /\ Last(path) \notin DOMAIN c.tree.kids
           \/ c.tree.t = "slice" /\ ~(idx.ok /\ idx.n >= 0 /\ idx.n < Len(c.tree.elems))

\* the path of operation k ends at a place that does not exist
TerminalAbsent(k) == AbsentIn(DocAt(k - 1), patches[k].path)

\* C13: a replace that runs and whose location does not exist makes
\* ApplyPatch return an error and leaves the document as it was: the key is
\* not created.
C13_ReplaceNeedsExisting ==
  pc = "applied" =>
    \A k \in 1..Len(patches) :
      (patches[k].op = "replace" /\ Runs(k) /\ TerminalAbsent(k)) =>
        /\ ErrAt(k) # ""
        /\ applyErr # ""
        /\ DocAt(k) = DocAt(k - 1)

\* C14: a move that runs and whose from resolves to nothing (a key its
\* mapping lacks, an index outside the sequence) makes ApplyPatch return an
\* error and adds nothing: the document stays as it was.
C14_MoveFromNothingFails ==
  pc = "applied" =>
    \A k \in 1..Len(patches) :
      (/\ patches[k].op = "move"
       /\ patches[k].path # <<>>
       /\ Runs(k)
       /\ AbsentIn(DocAt(k - 1), patches[k].from)) =>
        /\ ErrAt(k) # ""
        /\ applyErr # ""
        /\ DocAt(k) = DocAt(k - 1)

\* path ends at a place that exists in document D: a key of the mapping it
\* reaches, or an index within the sequence it reaches
PresentIn(D, path) ==
  /\ path # <<>>
  /\ LET c   == TreeLookup(D, Upper(path))
         idx == Atoi(Last(path))
     IN /\ c.found
        /\ \/ c.tree.t = "map" /\ Last(path) \in DOMAIN c.tree.kids
           \/ c.tree.t = "slice" /\ idx.ok /\ idx.n >= 0 /\ idx.n < Len(c.tree.elems)

\* D without what path ends at (path present in D)
TreeRemoveAt(D, path) ==
  LET c == TreeLookup(D, Upper(path)).tree
  IN IF c.t = "map"
     THEN TreeReplace(D, Upper(path), MapT(MapDelete(c.kids, Last(path))))
     ELSE TreeReplace(D, Upper(path), SliceT(Without(c.elems, Atoi(Last(path)).n)))

\* operation k is a move that runs, whose from is present and whose path
\* cannot be reached once from is removed: from is a strict ancestor of
\* path, or a segment of path before the last does not lead through
\* mappings of the document without from
MoveAddCannotLand(k) ==
  /\ patches[k].op = "move"
  /\ patches[k].path # <<>>
  /\ Runs(k)
  /\ PresentIn(DocAt(k - 1), patches[k].from)
  /\ \/ Under(patches[k].from, patches[k].path)
     \/ ~TreeLookup(TreeRemoveAt(DocAt(k - 1), patches[k].from), Upper(patches[k].path)).found

\* C15: no rollback.  Such a move makes ApplyPatch return an error and
\* leaves the document with the value at from removed and nothing added.
C15_MoveNotRolledBack ==
  pc = "applied" =>
    \A k \in 1..Len(patches) : MoveAddCannotLand(k) =>
      /\ ErrAt(k) # ""
      /\ applyErr = ErrAt(k)
      /\ ret = NilV
      /\ DocAt(k) = TreeRemoveAt(DocAt(k - 1), patches[k].from)
      /\ Deref(heap, before) = DocAt(k)

\* a move of what a holds to a place under a failed and took a away
C15_Witness ==
  /\ pc = "applied"
  /\ applyErr # ""
  /\ \E k \in 1..Len(patches) :
       /\ MoveAddCannotLand(k)
       /\ Under(patches[k].from, patches[k].path)
       /\ patches[k].from = Pointer(<<KeyA>>)
       /\ KeyA \in DOMAIN DocAt(k - 1).kids
       /\ KeyA \notin DOMAIN Deref(heap, before).kids

\* operation k is a remove that runs, whose path leads through existing
\* mappings to a mapping that lacks the last segment
RemoveOfAbsentKey(k) ==
  /\ patches[k].op = "remove"
  /\ Runs(k)
  /\ AbsentIn(DocAt(k - 1), patches[k].path)
  /\ Container(k).tree.t = "map"

\* C16: such a remove returns no error and leaves the document unchanged.
C16_RemoveAbsentKeyIsNoOp ==
  pc = "applied" =>
    \A k \in 1..Len(patches) : RemoveOfAbsentKey(k) =>
      /\ ErrAt(k) = ""
      /\ DocAt(k) = DocAt(k - 1)
      /\ HeapAfter(k) = HeapAfter(k - 1)
      /\ ReturnedIfLast(k, DocAt(k - 1))

\* a batch ending in the remove of a key that a nested mapping lacks was
\* applied without error, after an earlier operation had changed the document
C16_Witness ==
  /\ pc = "applied"
  /\ applyErr = ""
  /\ Len(patches) >= 2
  /\ RemoveOfAbsentKey(Len(patches))
  /\ Len(Segments(patches[Len(patches)].path)) = 2
  /\ Deref(heap, ret) = DocAt(Len(patches) - 1)
  /\ Deref(heap, ret) # Before0

\* operation k cannot be read: its path is empty, it is a move with an
\* empty from, or its op code is none of add, remove, replace, move
Malformed(k) ==
  \/ patches[k].path = <<>>
  \/ patches[k].op = "move" /\ patches[k].from = <<>>
  \/ patches[k].op \notin {"add", "remove", "replace", "move"}

\* C17: an operation that runs and cannot be read makes ApplyPatch return
\* an error and no document, and changes nothing: the document is as the
\* operations before it left it.
C17_MalformedOperationFails ==
  pc = "applied" =>
    \A k \in 1..Len(patches) : (Malformed(k) /\ Runs(k)) =>
      /\ ErrAt(k) # ""
      /\ applyErr = ErrAt(k)
      /\ ret = NilV
      /\ HeapAfter(k) = HeapAfter(k - 1)
      /\ heap = HeapAfter(k - 1)

\* each kind of unreadable operation was met, after an operation that had
\* changed the document
MalformedMet(kind) ==
  /\ pc = "applied"
  /\ applyErr # ""
  /\ Len(patches) >= 2
  /\ Runs(2)
  /\ Deref(heap, before) # Before0
  /\ CASE kind = "path" -> patches[2].path = <<>>
       [] kind = "from" -> patches[2].op = "move" /\ patches[2].from = <<>>
       [] OTHER         -> patches[2].op = "copy"

\* an operation with an unknown op code stopped a batch whose first
\* operation had changed the document
C17_Witness == MalformedMet("op")

(***************************************************************************)
(* Ownership of the values a generated batch carries.                      *)
(***************************************************************************)
\* C18: the values of add and replace operations are copies.  Once
\* ApplyPatch has installed them, writing inside them in the returned
\* document leaves the caller's after document as it was.
C18_ValuesAreCopies ==
  pc \in {"applied", "mutated"} => Deref(heap, after) = After0

(***************************************************************************)
(* The order in which GeneratePatch visits the keys of a mapping.          *)
(***************************************************************************)
\* the batch GeneratePatch returns for the caller's two documents when it
\* visits keys in the order o
BatchUnder(o) == GeneratePatch(heap0, before, after, <<>>, o)

\* C19: the outcome does not depend on the key order.  For the batch that
\* was generated and applied, and every other order of visiting the keys,
\* GeneratePatch returns under that order too, and applying its batch to
\* the same before document ends the same way with the same document.
C19_KeyOrderIrrelevant ==
  pc = "applied" =>
    \A o \in KeyOrders :
      LET Same(r) == /\ r.err = applyErr
                     /\ Deref(r.h, r.ret) = Deref(heap, ret)
                     /\ Deref(r.h, before) = Deref(heap, before)
      IN /\ BatchUnder(o).st = "ok"
         /\ Same(ApplyPatch(heap0, before, BatchUnder(o).ops))

\* a batch of at least two operations was applied that would have come out
\* in another sequence under the other key order
C19_Witness ==
  /\ pc = "applied"
  /\ applyErr = ""
  /\ Len(patches) >= 2
  /\ \E o \in KeyOrders : o # ord /\ BatchUnder(o).ops # patches
  /\ Deref(heap, ret) # Before0

(***************************************************************************)
(* Strings and white space, on documents with a string under the key a and *)
(* an array of strings under the key "list".                               *)
(***************************************************************************)
\* the operations of the batch under /list
ListOps == {p \in 1..Len(patches) : Under(Pointer(<<KeyList>>), patches[p].path)}

\* no element of the before array equals, once trimmed, an element of the
\* after array
NothingInCommon ==
  \A i \in 1..Len(BeforeList), j \in 1..Len(AfterList) : ~TreeEq(BeforeList[i], AfterList[j])

\* C20: white space.  Strings that differ only in leading or trailing white
\* space are equal to the differ: no operation is emitted for such a value
\* of a mapping key nor for arrays whose elements are pairwise such
\* strings.  When the strings under a key differ once trimmed there is one
\* replace carrying after's string untrimmed; every add or replace on an
\* array index carries after's element of that index untrimmed, and arrays
\* of equal length with nothing in common diff to one such replace per
\* index.
C20_WhiteSpaceIgnored ==
  pc = "have_patch" =>
    /\ genSt = "ok"
    /\ (KeyA \in DOMAIN Before0.kids /\ KeyA \in DOMAIN After0.kids) =>
         IF TrimSpace(Before0.kids[KeyA].s) = TrimSpace(After0.kids[KeyA].s)
         THEN OpsAt(Pointer(<<KeyA>>)) = {}
         ELSE \E p \in 1..Len(patches) :
                /\ OpsAt(Pointer(<<KeyA>>)) = {p}
                /\ patches[p].op = "replace"
                /\ patches[p].value = StrV(After0.kids[KeyA].s)
    /\ SeqEq(BeforeList, AfterList) => ListOps = {}
    /\ \A p \in ListOps :
         patches[p].op \in {"add", "replace"} =>
           \E j \in 0..(Len(AfterList) - 1) :
             /\ patches[p].path = ListPath(j)
             /\ patches[p].value = StrV(AfterList[j + 1].s)
    /\ (Len(BeforeList) = Len(AfterList) /\ NothingInCommon) =>
         /\ Cardinality(ListOps) = Len(AfterList)
         /\ \A j \in 0..(Len(AfterList) - 1) :
              \E p \in ListOps :
                /\ patches[p] = Patch("replace", ListPath(j), <<>>, StrV(AfterList[j + 1].s))

\* two documents that differ, but only in the white space around the
\* string under a and around the elements of a two-element array, were
\* diffed to the empty batch
C20_Witness ==
  /\ pc = "have_patch"
  /\ patches = <<>>
  /\ KeyA \in DOMAIN Before0.kids /\ KeyA \in DOMAIN After0.kids
  /\ Before0.kids[KeyA] # After0.kids[KeyA]
  /\ Len(BeforeList) = 2
  /\ \A i \in 1..2 : BeforeList[i] # AfterList[i]

(***************************************************************************)
(* Values of different shape under the same key.                           *)
(***************************************************************************)
\* both trees hold the key of path (one or two segments deep) and the two
\* values there have different types
ShapeDiffersAt(segs) ==
  /\ TreeLookup(Before0, segs).found
  /\ TreeLookup(After0, segs).found
  /\ TreeLookup(Before0, segs).tree.t # TreeLookup(After0, segs).tree.t

\* the batch holds exactly one operation at or under the path of segs: a
\* replace at that path carrying after's whole value
OneReplaceAt(segs) ==
  /\ \A p \in 1..Len(patches) : ~Under(Pointer(segs), patches[p].path)
  /\ \E p \in 1..Len(patches) :
       /\ OpsAt(Pointer(segs)) = {p}
       /\ patches[p].op = "replace"
       /\ Deref(heap0, patches[p].value) = TreeLookup(After0, segs).tree

\* both trees hold null at the path of segs
NullPairAt(segs) ==
  /\ TreeLookup(Before0, segs).found /\ TreeLookup(Before0, segs).tree.t = "nil"
  /\ TreeLookup(After0, segs).found /\ TreeLookup(After0, segs).tree.t = "nil"

TagName(f) == IF f.tag = <<>> THEN <<>> ELSE Split(f.tag, ",")[1]

\* the field is marked as omitted
Omitted(f) == f.tag = <<"-">>

\* the name a field is serialized under
JsonName(f) == IF TagName(f) # <<>> THEN TagName(f) ELSE f.name

\* the fields of the record that are serialized
Kept == {i \in 1..Len(record.fields) : ~Omitted(record.fields[i])}

\* C22: struct normalisation.  toMap on a struct (or a pointer to one) whose
\* fields are all exported returns a mapping that holds an entry under the
\* serialization name of every field not marked as omitted (the name of its
\* json tag, else its declared name), carrying the value of the last such
\* field, and no other entry: a field tagged "-" does not appear.
C22_StructNormalization ==
  ( /\ pc = "normalized"
    /\ record.kind \in {"struct", "ptr"}
    /\ \A i \in 1..Len(record.fields) : exported(record.fields[i].name) ) =>
      /\ normal.st = "ok"
      /\ DOMAIN normal.m = {JsonName(record.fields[i]) : i \in Kept}
      /\ \A i \in Kept :
           (\A j \in Kept : j > i => JsonName(record.fields[j]) # JsonName(record.fields[i]))
             => normal.m[JsonName(record.fields[i])] = record.fields[i].value

(***************************************************************************)
(* The type registry.                                                      *)
(***************************************************************************)
\* the Register calls made under the discriminator d
RegisteredUnder(d) == {i \in 1..Len(log) : log[i].d = d}

\* the factory of the last Register call under d
LastRegistered(d) ==
  log[CHOOSE i \in RegisteredUnder(d) : \A j \in RegisteredUnder(d) : j <= i].factory

\* LoadFactory returns the latest factory of a registered discriminator, and
\* nil with the error exactly for one never registered
LoadFactoryContract ==
  call.fn = "LoadFactory" =>
    /\ RegisteredUnder(call.d) # {} =>
         call.err = <<>> /\ call.factory = LastRegistered(call.d)
    /\ (call.factory = NilFactory /\ call.err = NotRegistered(call.d))
         <=> RegisteredUnder(call.d) = {}

\* every discriminator ever registered is still in the registry
NeverRemoved == \A i \in 1..Len(log) : log[i].d \in DOMAIN types

\* C23 as stated: the contract of LoadFactory, registrations are never
\* removed, and MarshalPolymorphicJSON of an unregistered discriminator
\* fails with the very error LoadFactory returns for it.
C23_RegistrySameError ==
  /\ LoadFactoryContract
  /\ NeverRemoved
  /\ (call.fn = "MarshalPolymorphicJSON" /\ RegisteredUnder(call.d) = {}) =>
       call.err = NotRegistered(call.d)

\* C23: type registry.  After any sequence of Register calls LoadFactory(d)
\* returns without error the factory most recently registered under d, and
\* nil with the error 'type "d" is not registered' exactly when d was never
\* registered; registrations are never removed; MarshalPolymorphicJSON of
\* an unregistered discriminator returns no bytes and the MarshalerError of
\* json.Marshal around that error.
C23_Registry ==
  /\ LoadFactoryContract
  /\ NeverRemoved
  /\ (call.fn = "MarshalPolymorphicJSON" /\ RegisteredUnder(call.d) = {}) =>
       /\ call.out = NilBytes
       /\ call.err = MarshalerError(NotRegistered(call.d))
       /\ call.err # NotRegistered(call.d)

\* Person was registered twice with different factories and the marshalling
\* of an UnregisteredPerson failed
C23_Witness ==
  /\ call.fn = "MarshalPolymorphicJSON"
  /\ call.d = "UnregisteredPerson"
  /\ RegisteredUnder("UnregisteredPerson") = {}
  /\ call.err # <<>>
  /\ \E i, j \in RegisteredUnder("Person") : log[i].factory # log[j].factory
  /\ LoadFactory(types, "Person").factory = LastRegistered("Person")

(***************************************************************************)
(* Applying the scripts of the array differ.                               *)
(***************************************************************************)
\* the two arrays are the same but for two swapped elements
Swapped == \E i, j \in 0..(Len(BeforeList) - 1) : SwapCase(i, j)

\* the array under "list" of the document ApplyPatch returned
ResultList == Deref(heap, ret).kids[KeyList].elems

\* the batch was applied without error and the returned array is after's
AppliesToAfter ==
  /\ applyErr = ""
  /\ ret.t = "map"
  /\ KeyList \in DOMAIN Deref(heap, ret).kids
  /\ SeqEq(ResultList, AfterList)

\* the index an operation of the batch addresses
IndexOfOp(p) == parseIndexFromPath(patches[p].path).n

\* C24: scripts for equal lengths.  For arrays of equal length that are not
\* a swap of two elements the operations of the diff are in ascending index
\* order, and applying them in that order to before succeeds and yields
\* after.
C24_EqualLengthScriptApplies ==
  (Len(BeforeList) = Len(AfterList) /\ ~Swapped) =>
    /\ pc = "have_patch" =>
         /\ genSt = "ok"
         /\ \A p, q \in 1..Len(patches) : p < q => IndexOfOp(p) <= IndexOfOp(q)
    /\ pc = "applied" => AppliesToAfter

\* C25: applying the swap.  When before and after are the same but for two
\* swapped elements, adjacent or not, applying the single move of the diff
\* to before succeeds and yields after.
C25_SwapMoveApplies ==
  (pc = "applied" /\ Swapped) =>
    /\ Len(patches) = 1
    /\ patches[1].op = "move"
    /\ AppliesToAfter

\* C26: scripts for unequal lengths.  For arrays of unequal length the diff
\* is one remove per before index outside the common subsequence, in
\* strictly descending index order, followed by one add per after index
\* outside the common subsequence, in strictly ascending index order, and
\* applying it in order to before succeeds and yields after.
C26_UnequalLengthScriptApplies ==
  Len(BeforeList) # Len(AfterList) =>
    /\ pc = "have_patch" =>
         /\ genSt = "ok"
         /\ OpsOfKind("remove") \cup OpsOfKind("add") = 1..Len(patches)
         /\ \A p \in OpsOfKind("remove"), q \in OpsOfKind("add") : p < q
         /\ \A p, q \in OpsOfKind("remove") : p < q => IndexOfOp(p) > IndexOfOp(q)
         /\ \A p, q \in OpsOfKind("add") : p < q => IndexOfOp(p) < IndexOfOp(q)
         /\ {patches[p].path : p \in OpsOfKind("remove")}
              = {ListPath(i) : i \in (0..(Len(BeforeList) - 1)) \ Common.commonBefore}
         /\ {patches[p].path : p \in OpsOfKind("add")}
              = {ListPath(j) : j \in (0..(Len(AfterList) - 1)) \ Common.commonAfter}
    /\ pc = "applied" => AppliesToAfter

\* a script of two removes and an add was applied
C26_Witness ==
  /\ pc = "applied"
  /\ Len(BeforeList) # Len(AfterList)
  /\ Cardinality(OpsOfKind("remove")) = 2
  /\ Cardinality(OpsOfKind("add")) = 1
  /\ AppliesToAfter

(***************************************************************************)
(* Invalid indices.                                                        *)
(***************************************************************************)
\* operation k is an add, remove or replace whose path ends in a sequence
\* of the document it finds, with an index that is no number, negative,
\* greater than the length (add) or at least the length (remove, replace)
InvalidIndex(k) ==
  /\ patches[k].op \in {"add", "remove", "replace"}
  /\ patches[k].path # <<>>
  /\ Runs(k)
  /\ Container(k).found
  /\ Container(k).tree.t = "slice"
  /\ LET idx == Atoi(Last(patches[k].path))
         len == Len(Container(k).tree.elems)
     IN \/ ~idx.ok
        \/ idx.n < 0
        \/ patches[k].op = "add" /\ idx.n > len
        \/ patches[k].op # "add" /\ idx.n >= len

\* C27: invalid index.  An add, remove or replace that runs and addresses a
\* sequence with an invalid index fails: ApplyPatch returns its error and
\* no document, and the sequence and the rest of the document are as the
\* operation found them.
C27_InvalidIndexFails ==
  pc = "applied" =>
    \A k \in 1..Len(patches) : InvalidIndex(k) =>
      /\ ErrAt(k) # ""
      /\ applyErr = ErrAt(k)
      /\ ret = NilV
      /\ DocAt(k) = DocAt(k - 1)
      /\ Deref(heap, before) = DocAt(k - 1)

\* the remove of /a/0 shortened the sequence to one element, and the
\* replace of /a/1 that followed failed on it
C27_Witness ==
  /\ pc = "applied"
  /\ Len(patches) = 2
  /\ patches[1] = Patch("remove", Pointer(<<KeyA, <<"0">>>>), <<>>, NilV)
  /\ patches[2] = Patch("replace", Pointer(<<KeyA, <<"1">>>>), <<>>, NewValue)
  /\ InvalidIndex(2)
  /\ applyErr # ""
  /\ Deref(heap, before).kids[KeyA] = SliceT(<<IntT(2)>>)

(***************************************************************************)
(* Null under the same key of both documents.                              *)
(***************************************************************************)
\* C28: null on both sides.  When a key holds null in before and in after,
\* GeneratePatch returns normally, without panic or error, and emits no
\* operation for that key.
C28_NullPairIsEqual ==
  pc = "have_patch" =>
    \A key \in (DOMAIN Before0.kids) \cap (DOMAIN After0.kids) :
      (Before0.kids[key].t = "nil" /\ After0.kids[key].t = "nil") =>
        /\ genSt = "ok"
        /\ OpsAt(Pointer(<<key>>)) = {}

(***************************************************************************)
(* The index sets of the common subsequence.                               *)
(***************************************************************************)
RECURSIVE Ascending(_)
\* the members of a set of integers in ascending order
Ascending(S) ==
  IF S = {} THEN <<>>
  ELSE LET least == CHOOSE x \in S : \A y \in S : x <= y
       IN <<least>> \o Ascending(S \ {least})

\* dp[0][0] of the table improvedArrayDiff fills
TableLcs ==
  lcsTable(heap0, Elems(heap0, Fields(heap0, before)[KeyList]),
                  Elems(heap0, Fields(heap0, after)[KeyList]))[<<0, 0>>]

\* C29: the common subsequence.  commonBefore and commonAfter have the same
\* size; the k-th smallest member of one and the k-th smallest member of the
\* other index elements that are equal under deepEqualFiltered; and that
\* size is the length of a longest common subsequence of before and after,
\* which is dp[0][0].
C29_CommonIsLongestMatching ==
  pc = "have_patch" =>
    LET cb == Ascending(Common.commonBefore)
        ca == Ascending(Common.commonAfter)
    IN /\ Common.commonBefore \subseteq 0..(Len(BeforeList) - 1)
       /\ Common.commonAfter \subseteq 0..(Len(AfterList) - 1)
       /\ Len(cb) = Len(ca)
       /\ \A k \in 1..Len(cb) : TreeEq(BeforeList[cb[k] + 1], AfterList[ca[k] + 1])
       /\ Len(cb) = LcsLength
       /\ TableLcs = LcsLength

\* two arrays of three elements whose longest common subsequence has two
\* elements that are not at the same indices
C29_Witness ==
  /\ pc = "have_patch"
  /\ Len(BeforeList) = 3
  /\ Len(AfterList) = 3
  /\ Cardinality(Common.commonBefore) = 2
  /\ Common.commonBefore # Common.commonAfter
  /\ LcsLength = 2

(***************************************************************************)
(* The two variants of the array differ.                                   *)
(***************************************************************************)
\* the half of C30 about the positional differ alone, for before longer
\* than after by two or more elements
PositionalShrinkApplies ==
  ( /\ pc = "applied"
    /\ Len(BeforeList) >= Len(AfterList) + 2
    /\ patches = positionalDiff(heap0, Pointer(<<KeyList>>),
                                Elems(heap0, Fields(heap0, before)[KeyList]),
                                Elems(heap0, Fields(heap0, after)[KeyList])).ops )
    => AppliesToAfter

\* C30: the variants agree on the outcome.  For every pair of arrays under
\* a top-level key, the batch of the positional differ and the batch of the
\* LCS differ each apply to before without error and yield after, also
\* when before is longer than after by two or more elements.
C30_VariantsYieldAfter ==
  /\ pc = "have_patch" => genSt = "ok"
  /\ pc = "applied" => AppliesToAfter
  /\ PositionalShrinkApplies

====
